---- MODULE Spec2Model ----
(***************************************************************************)
(* Receipt extraction engine of SplitSnap: server/services/ocrService.js.  *)
(*                                                                         *)
(* The service is one shared AdvancedOCRService instance (module.exports   *)
(* is `new AdvancedOCRService()`).  Its pattern tables are RegExp objects  *)
(* with the global flag, so each of them carries a lastIndex that          *)
(* RegExp.prototype.test reads and writes; that is the only state of the   *)
(* instance and it is modelled by the variable `re`.                       *)
(*                                                                         *)
(* Text is modelled as a sequence of tokens: words, numbers, quantity      *)
(* markers and newlines.  Two neighbouring tokens are separated by one     *)
(* blank unless one of them is a newline.  Positions inside a text         *)
(* (lastIndex) are counted in characters.  Amounts are integers in         *)
(* hundredths of a rupee, scores of an OCR attempt are integers in 1/10000.*)
(***************************************************************************)
EXTENDS Integers, Sequences, FiniteSets, TLC

VARIABLES re, pc, text, lines, data, before, re0, prev,
          ipc, hasKey, variants, idx, best, bestConfidence, ocrMethod,
          attempt, maxScore, sawText, result,
          bill, participants

vars == <<re, pc, text, lines, data, before, re0, prev,
          ipc, hasKey, variants, idx, best, bestConfidence, ocrMethod,
          attempt, maxScore, sawText, result, bill, participants>>

clientVars == <<bill, participants>>

-----------------------------------------------------------------------------
(* Bounds of the model *)

MaxTextLen == 3
MaxOcrLen == 1
MaxConcLen == 2

-----------------------------------------------------------------------------
(* Tokens *)

W(s) == [k |-> "w", s |-> s, i |-> 0, f |-> -1]
N(i) == [k |-> "n", s |-> "", i |-> i, f |-> -1]
D(i, f) == [k |-> "n", s |-> "", i |-> i, f |-> f]
Q(i) == [k |-> "q", s |-> "x", i |-> i, f |-> -1]
NL == [k |-> "nl", s |-> "", i |-> 0, f |-> -1]

None == [k |-> "none"]

ClientIdle == bill = None /\ participants = <<>>

NoMethod == [engine |-> "none", config |-> "none"]

RECURSIVE Digits(_)
Digits(n) == IF n < 10 THEN 1 ELSE 1 + Digits(n \div 10)

WordLen(s) ==
    CASE s = "total" -> 5
      [] s = "bus" -> 3
      [] s = "chicken" -> 7
      [] s = "Bill" -> 4
      [] s = "Total" -> 5
      [] s = "Ticket" -> 6
      [] s = "gst" -> 3
      [] s = "train" -> 5
      [] s = "bill" -> 4
      [] s = "x" -> 1
      [] s = "subtotal" -> 8
      [] s = "tip" -> 3
      [] s = "km" -> 2
      [] s = "gsrtc" -> 5
      [] s = "ksrtc" -> 5
      [] s = "depot" -> 5
      [] OTHER -> 4

\* number of characters of a token
TokLen(t) ==
    CASE t.k = "w" -> WordLen(t.s)
      [] t.k = "n" -> Digits(t.i) + (IF t.f >= 0 THEN 3 ELSE 0)
      [] t.k = "q" -> Digits(t.i) + 1
      [] OTHER -> 1

\* the characters of a text: the tokens with one blank between neighbours;
\* a newline token is its own separator
Sep(s, j) == IF j > 1 /\ s[j - 1].k # "nl" /\ s[j].k # "nl" THEN 1 ELSE 0

RECURSIVE EndOf(_, _)
EndOf(s, j) == IF j = 0 THEN 0 ELSE EndOf(s, j - 1) + Sep(s, j) + TokLen(s[j])

StartOf(s, j) == EndOf(s, j - 1) + Sep(s, j)

\* String.length
StrLen(s) == EndOf(s, Len(s))

\* the keywords a word holds: itself, and 'total' inside 'subtotal'
Keywords(w) == IF w = "subtotal" THEN {"subtotal", "total"} ELSE {w}

Words(s) == UNION {Keywords(s[j].s) : j \in {n \in 1..Len(s) : s[n].k = "w"}}

\* String.prototype.includes of a keyword that is a word of the vocabulary
Includes(s, kw) == kw \in Words(s)

IncludesAny(s, kws) == kws \cap Words(s) # {}

-----------------------------------------------------------------------------
(* The global-flag pattern tables of the constructor *)

RegexNames == {"currency", "gst", "serviceCharge", "total", "subtotal",
               "phone", "email", "indianCities", "transportation",
               "busTicket", "trainTicket"}

\* the words of the vocabulary inside which each pattern finds a match
RxWords(rx) ==
    CASE rx = "gst" -> {"gst"}
      [] rx = "total" -> {"total", "subtotal"}
      [] rx = "subtotal" -> {"subtotal"}
      [] rx = "serviceCharge" -> {"tip"}
      [] rx = "transportation" -> {"bus", "train", "km", "gsrtc", "ksrtc", "depot"}
      [] rx = "busTicket" -> {"bus", "gsrtc", "ksrtc", "depot"}
      [] rx = "trainTicket" -> {"train"}
      [] rx = "indianCities" -> {"pune", "agra"}
      [] OTHER -> {}

RxHit(rx, t) == t.k = "w" /\ t.s \in RxWords(rx)

\* where in the word the match starts: /total/ matches 'subtotal' from its
\* fourth character; every match ends with the word
RxOffset(rx, t) == IF rx = "total" /\ t.s = "subtotal" THEN 3 ELSE 0

FreshRe == [rx \in RegexNames |-> 0]

\* the least of a set of positions, 0 for the empty set
MinOf(S) == IF S = {} THEN 0 ELSE CHOOSE j \in S : \A h \in S : j <= h

\* the first token at or after character `from` in which rx matches, 0 if
\* there is none
FirstMatchAfter(rx, s, from) ==
    MinOf({j \in 1..Len(s) :
              RxHit(rx, s[j]) /\ StartOf(s, j) + RxOffset(rx, s[j]) >= from})

\* the outcome of test() when the match it finds is token j, 0 for no match
TestAt(rx, s, st, j) ==
    [ok |-> j > 0, st |-> [st EXCEPT ![rx] = IF j > 0 THEN EndOf(s, j) ELSE 0]]

\* RegExp.prototype.test of a global pattern: the search starts at lastIndex;
\* a match moves lastIndex to the end of the match, a failure resets it to 0
Test(rx, s, st) == TestAt(rx, s, st, FirstMatchAfter(rx, s, st[rx]))

\* String.prototype.match with a global pattern: all matches, lastIndex is
\* reset to 0
MatchAll(rx, s, st) ==
    [hits |-> {j \in 1..Len(s) : RxHit(rx, s[j])}, st |-> [st EXCEPT ![rx] = 0]]

RECURSIVE TestAny(_, _, _)

\* a || b: b runs only when a, with outcome r, was false
OrTestAny(r, rxs, s) == IF r.ok THEN r ELSE TestAny(rxs, s, r.st)

\* a || chain of test() calls: the tests after the first success do not run
TestAny(rxs, s, st) ==
    IF rxs = <<>> THEN [ok |-> FALSE, st |-> st]
    ELSE OrTestAny(Test(Head(rxs), s, st), Tail(rxs), s)

\* a || b where b reads no pattern
OrOk(r, b) == [ok |-> r.ok \/ b, st |-> r.st]

\* a score and its bonus for the test with outcome r
Scored(r, score, bonus) ==
    [score |-> score + (IF r.ok THEN bonus ELSE 0), st |-> r.st]

-----------------------------------------------------------------------------
(* Keyword tables *)

indianFoodTerms == {"chicken"}

\* the business terms of scoreMerchantName
businessTerms == {"restaurant", "hotel", "cafe", "depot", "transport", "travels"}

\* the item terms of scoreItemLine; 'chicken' is listed twice in the source
\* array (once through indianFoodTerms, once literally), so it counts twice
ItemTermCount(s) == IF Includes(s, "chicken") THEN 2 ELSE 0

Min(a, b) == IF a < b THEN a ELSE b
Max(a, b) == IF a > b THEN a ELSE b
Abs(a) == IF a < 0 THEN -a ELSE a

RECURSIVE SeqMax(_)
SeqMax(s) == IF Len(s) = 1 THEN s[1] ELSE Max(s[1], SeqMax(Tail(s)))

IsBlank(s) == \A j \in 1..Len(s) : s[j].k = "nl"

-----------------------------------------------------------------------------
(* calculateConfidence *)

\* the if (pattern.test(text)) confidence += bonus statements, in order
RECURSIVE Boosts(_, _, _, _)

BoostNext(tests, s, acc, r) ==
    Boosts(Tail(tests), s, r.st, IF r.ok THEN acc + Head(tests)[2] ELSE acc)

Boosts(tests, s, st, acc) ==
    IF tests = <<>> THEN [conf |-> acc, st |-> st]
    ELSE BoostNext(tests, s, acc, Test(Head(tests)[1], s, st))

DecimalCount(s) == Cardinality({j \in 1..Len(s) : s[j].k = "n" /\ s[j].f >= 0})

\* the penalty of a text of fewer than 50 characters and the clamp to [0, 1]
clampConfidence(s, b) ==
    [conf |-> Min(Max(b.conf - (IF StrLen(s) < 50 THEN 20 ELSE 0), 0), 100),
     st |-> b.st]

\* confidence in hundredths; base is 70 (0.7) unless the engine gives one.
\* The pattern tests run in the order of the source; the bonuses of the food
\* terms and of the prices, which read no pattern, are in the starting sum
calculateConfidence(s, base, st) ==
    IF IsBlank(s) THEN [conf |-> 0, st |-> st]
    ELSE clampConfidence(s,
             Boosts(<< <<"currency", 10>>, <<"gst", 10>>, <<"phone", 5>>,
                       <<"total", 10>>, <<"transportation", 15>>,
                       <<"busTicket", 10>>, <<"trainTicket", 10>>,
                       <<"indianCities", 5>> >>,
                    s, st,
                    base + Min(Cardinality(indianFoodTerms \cap Words(s)) * 2, 10)
                         + Min(DecimalCount(s) * 3, 15)))

-----------------------------------------------------------------------------
(* cleanText and the line split of advancedReceiptExtraction *)

\* every run of white space, newlines included, becomes one blank, and the
\* result is trimmed: the newline tokens disappear
cleanText(s) == SelectSeq(s, LAMBDA t : t.k # "nl")

\* String.prototype.split('\n'), trim and the removal of empty lines
RECURSIVE SplitLines(_, _)
SplitLines(s, cur) ==
    IF s = <<>> THEN (IF cur = <<>> THEN <<>> ELSE <<cur>>)
    ELSE IF Head(s).k = "nl"
         THEN (IF cur = <<>> THEN <<>> ELSE <<cur>>) \o SplitLines(Tail(s), <<>>)
         ELSE SplitLines(Tail(s), Append(cur, Head(s)))

-----------------------------------------------------------------------------
(* detectReceiptType *)

typeAfterTrainTest(s, train) ==
    [type |-> IF train.ok THEN "train"
              ELSE IF IncludesAny(s, indianFoodTerms \cup {"restaurant", "hotel", "cafe"})
                   THEN "restaurant"
              ELSE IF IncludesAny(s, {"invoice", "bill", "purchase"}) THEN "retail"
              ELSE "general",
     st |-> train.st]

typeAfterBusTest(s, bus) ==
    IF bus.ok \/ IncludesAny(s, {"depot", "journey"})
    THEN [type |-> "transportation", st |-> bus.st]
    ELSE typeAfterTrainTest(s, Test("trainTicket", s, bus.st))

detectReceiptType(s, st) == typeAfterBusTest(s, Test("busTicket", s, st))

-----------------------------------------------------------------------------
(* extractPricesFromLine and filterAndRankPrices *)

\* Array.prototype.sort with (a, b) => b.score - a.score: descending, stable
RECURSIVE InsertByScore(_, _)
InsertByScore(sorted, x) ==
    IF sorted = <<>> THEN <<x>>
    ELSE IF sorted[Len(sorted)].score >= x.score THEN Append(sorted, x)
    ELSE Append(InsertByScore(SubSeq(sorted, 1, Len(sorted) - 1), x),
                sorted[Len(sorted)])

RECURSIVE SortByScore(_)
SortByScore(s) ==
    IF s = <<>> THEN <<>>
    ELSE InsertByScore(SortByScore(SubSeq(s, 1, Len(s) - 1)), s[Len(s)])

\* the matches of /(?<!\d)(\d{1,4}\.\d{2})(?!\d)/g, in hundredths
RECURSIVE DecimalMatches(_)
DecimalMatches(line) ==
    IF line = <<>> THEN <<>>
    ELSE LET t == Head(line)
         IN (IF t.k = "n" /\ t.f >= 0 /\ Digits(t.i) <= 4
             THEN <<t.i * 100 + t.f>> ELSE <<>>) \o DecimalMatches(Tail(line))

\* the matches of /(?<!\d)(\d{1,5})(?!\d)/g: every run of at most five digits,
\* the digits of a quantity marker and both halves of a decimal included
RECURSIVE WholeMatches(_)
WholeMatches(line) ==
    IF line = <<>> THEN <<>>
    ELSE LET t == Head(line)
         IN (IF t.k \in {"n", "q"} /\ Digits(t.i) <= 5 THEN <<t.i * 100>> ELSE <<>>)
            \o (IF t.k = "n" /\ t.f >= 0 THEN <<t.f * 100>> ELSE <<>>)
            \o WholeMatches(Tail(line))

\* .map(item => item.value)
Values(scored) == [j \in 1..Len(scored) |-> scored[j].value]

filterAndRankPrices(values, contextLine) ==
    LET transport == IncludesAny(contextLine, {"transport", "bus", "ticket"})
        ctx == (IF IncludesAny(contextLine, {"total", "amount"}) THEN 15 ELSE 0)
               + (IF IncludesAny(contextLine, {"fare", "price"}) THEN 12 ELSE 0)
               + (IF IncludesAny(contextLine, {"subtotal", "net"}) THEN 8 ELSE 0)
               + (IF IncludesAny(contextLine, {"tax", "gst"}) THEN 5 ELSE 0)
        idLike == Includes(contextLine, "no")
        Score(price) ==
            ctx
            + (IF transport
               THEN (IF price >= 1000 /\ price <= 200000 THEN 8 ELSE 0)
                    + (IF price >= 5000 /\ price <= 50000 THEN 5 ELSE 0)
                    - (IF price < 1000 \/ price > 500000 THEN 10 ELSE 0)
               ELSE (IF price >= 100 /\ price <= 1000000 THEN 5 ELSE 0)
                    + (IF price >= 1000 /\ price <= 100000 THEN 3 ELSE 0)
                    - (IF price > 5000000 THEN 15 ELSE 0))
            + (IF price % 100 # 0 THEN 3 ELSE 0)
            - (IF price % 10000 = 0 /\ price > 10000 THEN 2 ELSE 0)
            - (IF price >= 100000 /\ price <= 999900 /\ price % 100 = 0
               THEN 5 ELSE 0)
            - (IF price >= 10000 /\ price <= 99900 /\ idLike THEN 8 ELSE 0)
    IN Values(SelectSeq(SortByScore([j \in 1..Len(values) |->
                                        [value |-> values[j], score |-> Score(values[j])]]),
                        LAMBDA m : m.score > -5))

\* the prices of a line, best score first; parseFloat results that are not
\* positive are dropped
extractPricesFromLine(line) ==
    filterAndRankPrices(
        SelectSeq(DecimalMatches(line) \o WholeMatches(line), LAMBDA v : v > 0),
        line)

-----------------------------------------------------------------------------
(* selectBestPrice, extractQuantity, extractItemName *)

\* the first non-round reasonable price, else the first reasonable one, else
\* the first price
firstReasonable(prices, reasonablePrices) ==
    IF reasonablePrices = <<>> THEN prices[1]
    ELSE IF \E j \in 1..Len(reasonablePrices) : reasonablePrices[j] % 1000 # 0
         THEN SelectSeq(reasonablePrices, LAMBDA p : p % 1000 # 0)[1]
    ELSE reasonablePrices[1]

selectBestPrice(prices, line) ==
    IF Len(prices) = 1 THEN prices[1]
    ELSE IF IncludesAny(line, {"total", "amount"}) THEN SeqMax(prices)
    ELSE firstReasonable(prices, SelectSeq(prices, LAMBDA p : p >= 100 /\ p <= 200000))

\* /(\d+)\s*(?:x|qty|pc[s]?|nos?)/i: the number of the first quantity marker
extractQuantity(line) ==
    LET qs == SelectSeq(line, LAMBDA t : t.k = "q")
    IN IF qs # <<>> THEN qs[1].i ELSE 1

\* itemName.replace(new RegExp(price)) removes the first occurrence of the
\* digits of the price: a number token goes, a quantity marker keeps its 'x'
RECURSIVE RemovePrice(_, _)
RemovePrice(frags, price) ==
    IF frags = <<>> THEN <<>>
    ELSE LET t == Head(frags)
         IN IF t.k = "n" /\ t.f < 0 /\ t.i * 100 = price THEN Tail(frags)
            ELSE IF t.k = "q" /\ t.i * 100 = price THEN <<W("x")>> \o Tail(frags)
            ELSE <<t>> \o RemovePrice(Tail(frags), price)

RECURSIVE RemovePrices(_, _)
RemovePrices(frags, prices) ==
    IF prices = <<>> THEN frags
    ELSE RemovePrices(RemovePrice(frags, Head(prices)), Tail(prices))

\* itemName.replace(/\d+\s*x\s*|\d+\s*qty|\d+\s*pc[s]?/gi, ''): a quantity
\* marker that still has its digits goes, and so does a number that is left
\* in front of a bare 'x'
RECURSIVE RemoveQuantity(_)
RemoveQuantity(frags) ==
    IF frags = <<>> THEN <<>>
    ELSE LET t == Head(frags)
         IN IF t.k = "q" THEN RemoveQuantity(Tail(frags))
            ELSE IF t.k = "n" /\ Len(frags) > 1 /\ frags[2] = W("x")
            THEN RemoveQuantity(Tail(Tail(frags)))
            ELSE <<t>> \o RemoveQuantity(Tail(frags))

extractItemName(line, priceMatches) ==
    RemoveQuantity(RemovePrices(line, priceMatches))

\* the characters of an item name that are not blanks; a name of two
\* fragments has at least two characters
RECURSIVE NameLength(_)
NameLength(name) ==
    IF name = <<>> THEN 0 ELSE TokLen(Head(name)) + NameLength(Tail(name))

-----------------------------------------------------------------------------
(* Line classification *)

isHeaderLine(line) ==
    \/ /\ Len(line) = 1
       /\ line[1].k = "w"
       /\ line[1].s \in {"item", "description", "qty", "quantity", "price",
                         "amount", "total"}
    \/ IncludesAny(line, {"bill", "receipt", "invoice", "order"})

isTotalLine(line, st) ==
    TestAny(<<"total", "subtotal", "gst", "serviceCharge">>, line, st)

\* the third alternative, /address|location/i, matches no word of the vocabulary
isMerchantInfoLine(line, st) ==
    OrOk(TestAny(<<"phone", "email">>, line, st),
         IncludesAny(line, {"address", "location"}))

isAddressLine(line, st) ==
    OrOk(Test("indianCities", line, st),
         \/ IncludesAny(line, {"road", "street", "avenue", "lane", "nagar",
                               "colony", "sector", "block", "pin", "pincode"})
         \/ \E j \in 1..Len(line) : line[j].k = "n" /\ Digits(line[j].i) >= 6)

\* (line.match(/\d/g) || []).length
RECURSIVE DigitCount(_)
DigitCount(line) ==
    IF line = <<>> THEN 0
    ELSE LET t == Head(line)
         IN (IF t.k \in {"n", "q"} THEN Digits(t.i) ELSE 0)
            + (IF t.k = "n" /\ t.f >= 0 THEN 2 ELSE 0)
            + DigitCount(Tail(line))

\* the skipPatterns, all anchored at the start of the line
StartsWithSkipWord(line) ==
    /\ line # <<>>
    /\ line[1].k = "w"
    /\ line[1].s \in {"date", "time", "bill", "receipt", "invoice", "order",
                      "table", "server", "cashier", "thanks", "welcome",
                      "gst", "vat", "tax", "tip",
                      "subtotal", "total", "amount", "balance", "change"}

\* the checks of shouldSkipLine after isTotalLine, whose outcome is tot
skipAfterTotalTest(line, tot) ==
    IF tot.ok THEN tot
    ELSE OrOk(isMerchantInfoLine(line, tot.st),
              \/ StrLen(line) < 3
              \/ DigitCount(line) * 10 > StrLen(line) * 7
              \/ StartsWithSkipWord(line))

shouldSkipLine(line, st) ==
    IF isHeaderLine(line) THEN [ok |-> TRUE, st |-> st]
    ELSE skipAfterTotalTest(line, isTotalLine(line, st))

\* lineIndex is counted from 0, as in the source
scoreItemLine(line, lineIndex, totalLines, st) ==
    Scored(OrTestAny(isAddressLine(line, st), <<"phone">>, line),
           5
           + 3 * ItemTermCount(line)
           + (IF \E j \in 1..Len(line) : line[j].k = "q" THEN 4 ELSE 0)
           + (IF 10 * lineIndex > 2 * totalLines
                 /\ 10 * lineIndex < 8 * totalLines THEN 3 ELSE 0)
           + (IF (\E j \in 1..Len(line) : line[j].k \in {"w", "q"})
                 /\ DigitCount(line) > 0 THEN 2 ELSE 0),
           -10)

-----------------------------------------------------------------------------
(* extractMerchantInfo (general path) *)

NoInfo == [name |-> <<>>, address |-> <<>>, phone |-> <<>>, email |-> <<>>]

containsPrice(line) == DecimalCount(line) > 0

\* the words of the vocabulary are written in lower case, so a line is in
\* upper case or title case exactly when it holds no word
ProperCase(line) == \A j \in 1..Len(line) : line[j].k # "w"

scoreMerchantName(line, lineIndex, st) ==
    Scored(Test("indianCities", line, st),
           (IF containsPrice(line) THEN -20 ELSE 0)
           - (IF isHeaderLine(line) THEN 15 ELSE 0)
           + (IF lineIndex = 0 THEN 15
              ELSE IF lineIndex <= 2 THEN 10
              ELSE IF lineIndex <= 4 THEN 5 ELSE 0)
           + 8 * Cardinality(businessTerms \cap Words(line))
           + (IF ProperCase(line) THEN 5 ELSE 0)
           + (IF StrLen(line) >= 5 /\ StrLen(line) <= 50 THEN 5 ELSE 0)
           - (IF StrLen(line) < 3 THEN 10 ELSE 0)
           - (IF StrLen(line) > 80 THEN 5 ELSE 0)
           - (IF DigitCount(line) * 10 > StrLen(line) * 3 THEN 10 ELSE 0),
           3)

\* every character that is no word character, blank, & ' or - becomes a
\* blank: the point of a decimal splits it into two numbers
RECURSIVE cleanMerchantName(_)
cleanMerchantName(name) ==
    IF name = <<>> THEN <<>>
    ELSE LET t == Head(name)
         IN (IF t.k = "n" /\ t.f >= 0 THEN <<N(t.i), N(t.f)>> ELSE <<t>>)
            \o cleanMerchantName(Tail(name))

\* one pass of the loop over the first ten lines; acc holds the candidates,
\* the merchant info found so far and the pattern state
\* merchantCandidates.push for a line whose score sc is positive
pushCandidate(line, acc, sc) ==
    [acc EXCEPT !.cands = IF sc.score > 0
                          THEN Append(@, [name |-> cleanMerchantName(line),
                                          score |-> sc.score])
                          ELSE @,
                !.st = sc.st]

nameStep(line, i, acc) ==
    IF acc.info.name = <<>> /\ StrLen(line) > 3
    THEN pushCandidate(line, acc, scoreMerchantName(line, i, acc.st))
    ELSE acc

\* the first match m of a line is kept in a field that is still empty
storeMatch(field, line, acc, m) ==
    [acc EXCEPT !.info[field] = IF m.hits # {} /\ @ = <<>>
                                THEN <<line[MinOf(m.hits)]>> ELSE @,
                !.st = m.st]

phoneStep(line, acc) == storeMatch("phone", line, acc, MatchAll("phone", line, acc.st))

emailStep(line, acc) == storeMatch("email", line, acc, MatchAll("email", line, acc.st))

storeAddress(line, acc, adr) ==
    [acc EXCEPT !.info.address = IF adr.ok THEN line ELSE @, !.st = adr.st]

addressStep(line, acc) ==
    IF acc.info.address = <<>> THEN storeAddress(line, acc, isAddressLine(line, acc.st))
    ELSE acc

merchantLine(line, i, acc) ==
    addressStep(line, emailStep(line, phoneStep(line, nameStep(line, i, acc))))

RECURSIVE merchantLoop(_, _, _)
merchantLoop(ls, i, acc) ==
    IF i >= Min(10, Len(ls)) THEN acc
    ELSE merchantLoop(ls, i + 1, merchantLine(ls[i + 1], i, acc))

\* the name of the best candidate, if there is a candidate
bestCandidate(info, sorted) ==
    IF sorted # <<>> THEN [info EXCEPT !.name = sorted[1].name] ELSE info

selectMerchant(d, r) ==
    [d |-> [d EXCEPT !.merchantInfo = bestCandidate(r.info, SortByScore(r.cands))],
     st |-> r.st]

extractMerchantInfo(ls, d, st) ==
    selectMerchant(d, merchantLoop(ls, 0, [cands |-> <<>>, info |-> d.merchantInfo,
                                           st |-> st]))

-----------------------------------------------------------------------------
(* extractItemsAndPrices (general path) *)

\* the quantity of a missing-or-zero count read as one
quantityOrOne_NoDefault(quantity) == quantity

\* quantity || 1
quantityOrOne(quantity) == IF quantity # 0 THEN quantity ELSE 1

\* potentialItems.push for a line with prices whose score is sc
pushPotentialItem(line, priceMatches, acc, sc) ==
    [items |-> IF /\ sc.score > 0
                  /\ NameLength(extractItemName(line, priceMatches)) > 1
                  /\ selectBestPrice(priceMatches, line) > 0
               THEN Append(acc.items,
                           [name |-> extractItemName(line, priceMatches),
                            price |-> selectBestPrice(priceMatches, line),
                            quantity |-> quantityOrOne(extractQuantity(line)),
                            score |-> sc.score])
               ELSE acc.items,
     st |-> sc.st]

\* the line after shouldSkipLine, whose outcome is skip
itemAfterSkipTest(ls, i, priceMatches, acc, skip) ==
    IF skip.ok \/ priceMatches = <<>> THEN [acc EXCEPT !.st = skip.st]
    ELSE pushPotentialItem(ls[i + 1], priceMatches, acc,
                           scoreItemLine(ls[i + 1], i, Len(ls), skip.st))

\* the body of the loop for line i (counted from 0); acc holds the potential
\* items and the pattern state
itemLine(ls, i, acc) ==
    itemAfterSkipTest(ls, i, extractPricesFromLine(ls[i + 1]), acc,
                      shouldSkipLine(ls[i + 1], acc.st))

RECURSIVE itemLoop(_, _, _)
itemLoop(ls, i, acc) ==
    IF i >= Len(ls) THEN acc ELSE itemLoop(ls, i + 1, itemLine(ls, i, acc))

\* keeps the first item of every (lower-cased name, price) key
RECURSIVE removeDuplicateItems(_)

keepFirst(rest, it) ==
    IF \E j \in 1..Len(rest) : rest[j].name = it.name /\ rest[j].price = it.price
    THEN rest ELSE Append(rest, it)

removeDuplicateItems(items) ==
    IF items = <<>> THEN <<>>
    ELSE keepFirst(removeDuplicateItems(SubSeq(items, 1, Len(items) - 1)),
                   items[Len(items)])

\* the item of the Receipt for a potential item
plainItems(validItems) ==
    [j \in 1..Len(validItems) |->
        [name |-> validItems[j].name, price |-> validItems[j].price,
         quantity |-> validItems[j].quantity, type |-> ""]]

pushValidItems(d, r) ==
    [d |-> [d EXCEPT !.items =
               removeDuplicateItems(
                   @ \o plainItems(SortByScore(SelectSeq(r.items,
                                                         LAMBDA it : it.score > 3))))],
     st |-> r.st]

extractItemsAndPrices(ls, d, st) ==
    pushValidItems(d, itemLoop(ls, 0, [items |-> <<>>, st |-> st]))

-----------------------------------------------------------------------------
(* extractTotalsAndCharges (general path) *)

\* the if / else-if chain of one line with prices: the first pattern whose
\* test succeeds names the field, the tests after it do not run
\* the field the pattern rx stands for takes the larger of itself and price
storeAmount(d, rx, price) ==
    CASE rx = "total" -> [d EXCEPT !.total = Max(@, price)]
      [] rx = "subtotal" -> [d EXCEPT !.subtotal = Max(@, price)]
      [] rx = "gst" -> [d EXCEPT !.tax = Max(@, price)]
      [] rx = "serviceCharge" -> [d EXCEPT !.serviceCharge = Max(@, price)]

RECURSIVE firstField(_, _, _, _, _)

fieldAfterTest(rxs, line, d, price, r) ==
    IF r.ok THEN [d |-> storeAmount(d, Head(rxs), price), st |-> r.st]
    ELSE firstField(Tail(rxs), line, d, price, r.st)

\* the if / else-if chain of pattern tests: the first pattern that matches
\* takes the price, the patterns after it are not tested
firstField(rxs, line, d, price, st) ==
    IF rxs = <<>> THEN [d |-> d, st |-> st]
    ELSE fieldAfterTest(rxs, line, d, price, Test(Head(rxs), line, st))

totalsOfPrices(line, d, st, prices) ==
    IF prices = <<>> THEN [d |-> d, st |-> st]
    ELSE firstField(<<"total", "subtotal", "gst", "serviceCharge">>, line, d,
                    SeqMax(prices), st)

totalsLine(line, d, st) == totalsOfPrices(line, d, st, extractPricesFromLine(line))

RECURSIVE extractTotalsAndCharges(_, _, _)

totalsOfRest(ls, r) == extractTotalsAndCharges(Tail(ls), r.d, r.st)

extractTotalsAndCharges(ls, d, st) ==
    IF ls = <<>> THEN [d |-> d, st |-> st]
    ELSE totalsOfRest(ls, totalsLine(Head(ls), d, st))

-----------------------------------------------------------------------------
(* extractTransportationData and its fare selection *)

\* the abbreviations of extractTransportOrgName and their full names, in the
\* order of the if statements
operatorNames ==
    << <<"gsrtc", "Gujarat State Road Transport Corporation (GSRTC)">>,
       <<"ksrtc", "Karnataka State Road Transport Corporation (KSRTC)">>,
       <<"msrtc", "Maharashtra State Road Transport Corporation (MSRTC)">>,
       <<"apsrtc", "Andhra Pradesh State Road Transport Corporation (APSRTC)">>,
       <<"tsrtc", "Telangana State Road Transport Corporation (TSRTC)">> >>

\* the first run of letters and blanks that ends in front of 'DEPOT': the
\* match of /([A-Z\s]+)\s*DEPOT/i.  A number ends a run; the group starts
\* as far left as it can and, being greedy, ends in front of the last
\* 'depot' of its run.  Lines with 'depot' hold no quantity marker
RECURSIVE RunStart(_, _)
RunStart(line, j) ==
    IF j > 1 /\ line[j - 1].k = "w" THEN RunStart(line, j - 1) ELSE j

RECURSIVE RunEnd(_, _)
RunEnd(line, j) ==
    IF j < Len(line) /\ line[j + 1].k = "w" THEN RunEnd(line, j + 1) ELSE j

\* `${depotMatch[1].trim()} DEPOT`, <<>> when the pattern does not match.
\* The 'depot' words that match have a letter or a blank in front of them;
\* the match takes the last one of the run of the first one
depotMatch(line) ==
    LET depots == {j \in 1..Len(line) : line[j] = W("depot") /\ j > 1}
        first == MinOf(depots)
        last == CHOOSE n \in depots :
                    /\ n >= first /\ n <= RunEnd(line, first)
                    /\ \A h \in depots : h <= RunEnd(line, first) => h <= n
    IN IF depots = {} THEN <<>>
       ELSE SubSeq(line, RunStart(line, last), last - 1) \o <<W("DEPOT")>>

RECURSIVE orgNameOf(_, _)
orgNameOf(line, names) ==
    IF names = <<>>
    THEN (IF depotMatch(line) # <<>> THEN depotMatch(line) ELSE line)
    ELSE IF Includes(line, Head(names)[1]) THEN <<W(Head(names)[2])>>
    ELSE orgNameOf(line, Tail(names))

\* extractTransportOrgName: the full name of the first abbreviation the line
\* holds, else '<NAME> DEPOT', else line.trim()
extractTransportOrgName(line) == orgNameOf(line, operatorNames)

storeOrgName(line, acc, bus) ==
    [acc EXCEPT !.info.name = IF bus.ok THEN extractTransportOrgName(line) ELSE @,
                !.st = bus.st]

\* the organisation name; a line that includes 'depot' takes the depot
\* branch, whether its pattern matches or not, and then the busTicket test
\* does not run
orgNameStep(line, acc) ==
    IF acc.info.name # <<>> THEN acc
    ELSE IF Includes(line, "depot")
         THEN [acc EXCEPT !.info.name = depotMatch(line)]
    ELSE storeOrgName(line, acc, Test("busTicket", line, acc.st))

\* String.prototype.toUpperCase of a city name
toUpperCase(w) ==
    CASE w = "pune" -> "PUNE"
      [] w = "agra" -> "AGRA"
      [] OTHER -> w

\* [...new Set(cityMatches.map(city => city.toUpperCase()))]: the city names
\* of the line in the order of their first match
RECURSIVE uniqueCities(_, _)
uniqueCities(line, seen) ==
    IF line = <<>> THEN seen
    ELSE uniqueCities(Tail(line),
             IF /\ RxHit("indianCities", Head(line))
                /\ \A n \in 1..Len(seen) : seen[n] # W(toUpperCase(Head(line).s))
             THEN Append(seen, W(toUpperCase(Head(line).s)))
             ELSE seen)

\* extractRouteInformation: the lines of the vocabulary hold no 'to', no
\* dash and none of the words origin, destination, route, boarding and
\* dropping, so patterns 1, 2, 4, 5 and 6 find nothing; pattern 3 is the
\* match of the city names, which also resets the lastIndex of the pattern;
\* two different city names are the route
extractRouteInformation(line, st) ==
    LET cities == uniqueCities(line, <<>>)
    IN [from |-> IF Len(cities) >= 2 THEN <<cities[1]>> ELSE <<>>,
        to |-> IF Len(cities) >= 2 THEN <<cities[2]>> ELSE <<>>,
        st |-> MatchAll("indianCities", line, st).st]

storeRoute(acc, routeInfo) ==
    [acc EXCEPT !.from = IF routeInfo.from # <<>> /\ @ = <<>> THEN routeInfo.from ELSE @,
                !.to = IF routeInfo.to # <<>> /\ @ = <<>> THEN routeInfo.to ELSE @,
                !.st = routeInfo.st]

routeStep(line, acc) == storeRoute(acc, extractRouteInformation(line, acc.st))

\* the number of the first match of /(\d+)\s*km/i in the line, 0 without a
\* match: a number in front of 'km', of a decimal the digits behind the point
kmMatch(line) ==
    LET hits == {j \in 1..Len(line) - 1 : line[j].k = "n" /\ line[j + 1] = W("km")}
        t == line[MinOf(hits)]
    IN IF hits = {} THEN 0 ELSE IF t.f >= 0 THEN t.f ELSE t.i

\* if (distanceMatch) distance = parseInt(distanceMatch[1]); a line without a
\* match leaves distance alone
distanceStep(line, acc) ==
    [acc EXCEPT !.distance = IF \E j \in 1..Len(line) - 1 :
                                   line[j].k = "n" /\ line[j + 1] = W("km")
                             THEN kmMatch(line) ELSE @]

\* possibleFares.push(...reasonableFares)
faresStep(line, acc) ==
    [acc EXCEPT !.fares = @ \o SelectSeq(extractPricesFromLine(line),
                                         LAMBDA p : p >= 1000 /\ p <= 200000)]

transportLine(line, acc) ==
    phoneStep(line,
        faresStep(line, distanceStep(line, routeStep(line, orgNameStep(line, acc)))))

RECURSIVE transportLoop(_, _)
transportLoop(ls, acc) ==
    IF ls = <<>> THEN acc ELSE transportLoop(Tail(ls), transportLine(Head(ls), acc))

\* possibleFares.sort((a, b) => b - a)
Fares(sorted) == [j \in 1..Len(sorted) |-> sorted[j].fare]

SortDescending(fares) ==
    Fares(SortByScore([j \in 1..Len(fares) |-> [fare |-> fares[j], score |-> fares[j]]]))

\* the score one line gives to one of its prices
fareLineScore(line, price, pricesInLine) ==
    (IF IncludesAny(line, {"fare", "amount"}) THEN 20 ELSE 0)
    + (IF IncludesAny(line, {"total", "net"}) THEN 15 ELSE 0)
    + (IF IncludesAny(line, {"price", "cost"}) THEN 12 ELSE 0)
    + (IF IncludesAny(line, {"passenger", "ticket"}) THEN 10 ELSE 0)
    + (IF IncludesAny(line, {"journey", "travel"}) THEN 8 ELSE 0)
    + (IF price % 100 # 0 THEN 5 ELSE 0)
    + (IF price = pricesInLine[Len(pricesInLine)] THEN 3 ELSE 0)
    - (IF IncludesAny(line, {"distance", "km"}) THEN 5 ELSE 0)
    - (IF IncludesAny(line, {"time", "date"}) THEN 8 ELSE 0)
    - (IF IncludesAny(line, {"seat", "berth"}) THEN 3 ELSE 0)

\* pricesInLine.forEach: the first entry of fareScores with the price gets
\* the score of the line
\* fareScores[fareIndex].score += score, if the price was found
addScore(fareScores, fareIndex, score) ==
    IF fareIndex = 0 THEN fareScores
    ELSE [fareScores EXCEPT ![fareIndex].score = @ + score]

RECURSIVE scorePrices(_, _, _, _)
scorePrices(line, pricesInLine, j, fareScores) ==
    IF j > Len(pricesInLine) THEN fareScores
    ELSE scorePrices(line, pricesInLine, j + 1,
             addScore(fareScores,
                      MinOf({n \in 1..Len(fareScores) :
                                fareScores[n].fare = pricesInLine[j]}),
                      fareLineScore(line, pricesInLine[j], pricesInLine)))

RECURSIVE scoreLines(_, _)
scoreLines(ls, fareScores) ==
    IF ls = <<>> THEN fareScores
    ELSE scoreLines(Tail(ls),
                    scorePrices(Head(ls), extractPricesFromLine(Head(ls)), 1, fareScores))

\* 0 stands for null
bestScored(fareScores) ==
    IF fareScores # <<>> /\ fareScores[1].score > 0 THEN fareScores[1].fare ELSE 0

findExplicitFare(ls, possibleFares) ==
    bestScored(SortByScore(scoreLines(ls,
                   [j \in 1..Len(possibleFares) |->
                       [fare |-> possibleFares[j], score |-> 0]])))

scoreFaresByContext(possibleFares) ==
    LET Score(fare) ==
            (IF fare >= 10000 /\ fare <= 30000 THEN 10 ELSE 0)
            + (IF fare >= 5000 /\ fare <= 50000 THEN 5 ELSE 0)
            + (IF fare % 100 # 0 THEN 8 ELSE 0)
            - (IF fare % 10000 = 0 /\ fare > 10000 THEN 3 ELSE 0)
            - (IF fare >= 10000 /\ fare <= 15000 /\ fare % 100 = 0 THEN 2 ELSE 0)
            + (IF fare = SeqMax(possibleFares) THEN 7 ELSE 0)
            - (IF fare < 5000 THEN 10 ELSE 0)
            - (IF fare > 100000 THEN 15 ELSE 0)
    IN SortByScore([j \in 1..Len(possibleFares) |->
                       [fare |-> possibleFares[j], score |-> Score(possibleFares[j])]])

\* fareOr with the smaller of two candidates as the fare
fareOr_Smaller(explicit, possibleFares) ==
    IF explicit # 0 THEN explicit
    ELSE IF Len(possibleFares) = 1 THEN possibleFares[1]
    ELSE IF Len(possibleFares) = 2 THEN possibleFares[2]
    ELSE scoreFaresByContext(possibleFares)[1].fare

\* the fare of the ticket; 0 stands for a fare that is null
\* if (!fare): the smart selection
fareOr(explicit, possibleFares) ==
    IF explicit # 0 THEN explicit
    ELSE IF Len(possibleFares) = 1 THEN possibleFares[1]
    ELSE IF Len(possibleFares) = 2 THEN SeqMax(possibleFares)
    ELSE scoreFaresByContext(possibleFares)[1].fare

fareOfSorted(ls, possibleFares) ==
    IF possibleFares = <<>> THEN 0
    ELSE fareOr(findExplicitFare(ls, possibleFares), possibleFares)

selectFare(ls, fares) == fareOfSorted(ls, SortDescending(fares))

\* ` (${distance} km)` for a distance that is not null and not 0
distanceSuffix(distance) ==
    IF distance # 0 THEN <<W("("), N(distance), W("km)")>> ELSE <<>>

\* the item and the amounts of a ticket with the fare selected
storeTicket(d, r, fare) ==
    [d |-> [d EXCEPT !.merchantInfo = r.info,
                     !.items = @ \o (IF r.from # <<>> /\ r.to # <<>>
                                     THEN <<[name |-> r.from \o <<W("to")>> \o r.to
                                                      \o distanceSuffix(r.distance),
                                             price |-> fare, quantity |-> 1,
                                             type |-> "transportation"]>>
                                     ELSE IF fare # 0
                                     THEN <<[name |-> <<W("Bus"), W("Ticket")>>,
                                             price |-> fare, quantity |-> 1,
                                             type |-> "transportation"]>>
                                     ELSE <<>>),
                     !.total = IF r.fares # <<>> THEN fare ELSE @,
                     !.subtotal = IF r.fares # <<>> THEN fare ELSE d.total],
     st |-> r.st]

ticketOfLines(ls, d, r) == storeTicket(d, r, selectFare(ls, r.fares))

extractTransportationData(ls, d, st) ==
    ticketOfLines(ls, d, transportLoop(ls, [info |-> d.merchantInfo, from |-> <<>>,
                                            to |-> <<>>, distance |-> 0,
                                            fares |-> <<>>, st |-> st]))

-----------------------------------------------------------------------------
(* validateAndFixData *)

RECURSIVE ItemSum(_)
ItemSum(items) ==
    IF items = <<>> THEN 0
    ELSE Head(items).price * Head(items).quantity + ItemSum(Tail(items))

\* the validator without the guards of the tax adjustment
validateAndFixData_Unguarded(d) ==
    LET subtotal == IF d.subtotal = 0 /\ d.items # <<>> THEN ItemSum(d.items)
                    ELSE d.subtotal
        total == IF d.total = 0 THEN subtotal + d.tax + d.serviceCharge ELSE d.total
        calculatedTotal == subtotal + d.tax + d.serviceCharge
        remainingAmount == total - subtotal - d.serviceCharge
        tax == IF 10 * Abs(total - calculatedTotal) > total
               THEN remainingAmount ELSE d.tax
        kept == SelectSeq(d.items, LAMBDA it : it.price >= 100 /\ it.price <= 1000000)
    IN [d EXCEPT !.subtotal = subtotal,
                 !.total = total,
                 !.tax = tax,
                 !.items = IF kept = <<>> /\ total > 0
                           THEN <<[name |-> <<W("Bill"), W("Total")>>, price |-> total,
                                   quantity |-> 1, type |-> ""]>>
                           ELSE kept]

\* the validator whose generic item looks at the total as it was extracted
validateAndFixData_ExtractedTotal(d) ==
    LET subtotal == IF d.subtotal = 0 /\ d.items # <<>> THEN ItemSum(d.items)
                    ELSE d.subtotal
        total == IF d.total = 0 THEN subtotal + d.tax + d.serviceCharge ELSE d.total
        calculatedTotal == subtotal + d.tax + d.serviceCharge
        remainingAmount == total - subtotal - d.serviceCharge
        tax == IF /\ 10 * Abs(total - calculatedTotal) > total
                  /\ total > subtotal
                  /\ remainingAmount > 0
               THEN remainingAmount ELSE d.tax
        kept == SelectSeq(d.items, LAMBDA it : it.price >= 100 /\ it.price <= 1000000)
    IN [d EXCEPT !.subtotal = subtotal,
                 !.total = total,
                 !.tax = tax,
                 !.items = IF kept = <<>> /\ d.total > 0
                           THEN <<[name |-> <<W("Bill"), W("Total")>>, price |-> total,
                                   quantity |-> 1, type |-> ""]>>
                           ELSE kept]

\* the validator that leaves a subtotal of 0 alone
validateAndFixData_NoBackfill(d) ==
    LET subtotal == d.subtotal
        total == IF d.total = 0 THEN subtotal + d.tax + d.serviceCharge ELSE d.total
        calculatedTotal == subtotal + d.tax + d.serviceCharge
        remainingAmount == total - subtotal - d.serviceCharge
        tax == IF /\ 10 * Abs(total - calculatedTotal) > total
                  /\ total > subtotal
                  /\ remainingAmount > 0
               THEN remainingAmount ELSE d.tax
        kept == SelectSeq(d.items, LAMBDA it : it.price >= 100 /\ it.price <= 1000000)
    IN [d EXCEPT !.subtotal = subtotal,
                 !.total = total,
                 !.tax = tax,
                 !.items = IF kept = <<>> /\ total > 0
                           THEN <<[name |-> <<W("Bill"), W("Total")>>, price |-> total,
                                   quantity |-> 1, type |-> ""]>>
                           ELSE kept]

validateAndFixData(d) ==
    LET subtotal == IF d.subtotal = 0 /\ d.items # <<>> THEN ItemSum(d.items)
                    ELSE d.subtotal
        total == IF d.total = 0 THEN subtotal + d.tax + d.serviceCharge ELSE d.total
        calculatedTotal == subtotal + d.tax + d.serviceCharge
        remainingAmount == total - subtotal - d.serviceCharge
        tax == IF /\ 10 * Abs(total - calculatedTotal) > total
                  /\ total > subtotal
                  /\ remainingAmount > 0
               THEN remainingAmount ELSE d.tax
        kept == SelectSeq(d.items, LAMBDA it : it.price >= 100 /\ it.price <= 1000000)
    IN [d EXCEPT !.subtotal = subtotal,
                 !.total = total,
                 !.tax = tax,
                 !.items = IF kept = <<>> /\ total > 0
                           THEN <<[name |-> <<W("Bill"), W("Total")>>, price |-> total,
                                   quantity |-> 1, type |-> ""]>>
                           ELSE kept]

-----------------------------------------------------------------------------
(* advancedReceiptExtraction *)

\* an empty Receipt that carries a placeholder item
getEmptyReceiptData_Placeholder ==
    [items |-> <<[name |-> <<W("Bill"), W("Total")>>, price |-> 0, quantity |-> 1,
                  type |-> ""]>>,
     subtotal |-> 0, tax |-> 0, serviceCharge |-> 0, total |-> 0,
     merchantInfo |-> NoInfo, receiptType |-> "none"]

getEmptyReceiptData ==
    [items |-> <<>>, subtotal |-> 0, tax |-> 0, serviceCharge |-> 0, total |-> 0,
     merchantInfo |-> NoInfo, receiptType |-> "none"]

\* the synchronous part of a call, up to its first await: the empty guard,
\* the line split, detectReceiptType and the first extractor
\* where a call is when it awaits: the step that comes next, the lines, the
\* draft and the pattern state
atAwait(next, ls, r) == [pc |-> next, lines |-> ls, d |-> r.d, st |-> r.st]

\* the first extractor of a call whose tickets also go through
\* extractTotalsAndCharges
firstExtractor_WithTotals(ls, ty) ==
    IF ty.type = "transportation"
    THEN atAwait("totals", ls,
                 extractTransportationData(
                     ls, [getEmptyReceiptData EXCEPT !.receiptType = ty.type], ty.st))
    ELSE atAwait("items", ls,
                 extractMerchantInfo(
                     ls, [getEmptyReceiptData EXCEPT !.receiptType = ty.type], ty.st))

firstExtractor(ls, ty) ==
    IF ty.type = "transportation"
    THEN atAwait("validate", ls,
                 extractTransportationData(
                     ls, [getEmptyReceiptData EXCEPT !.receiptType = ty.type], ty.st))
    ELSE atAwait("items", ls,
                 extractMerchantInfo(
                     ls, [getEmptyReceiptData EXCEPT !.receiptType = ty.type], ty.st))

startExtraction(t, st) ==
    IF IsBlank(t)
    THEN [pc |-> "done", lines |-> <<>>, d |-> getEmptyReceiptData, st |-> st]
    ELSE firstExtractor(SplitLines(cleanText(t), <<>>), detectReceiptType(t, st))

\* the step of a call that is at pc: what runs between two awaits
stepExtraction(at, ls, d, st) ==
    CASE at = "transport" -> atAwait("validate", ls, extractTransportationData(ls, d, st))
      [] at = "items" -> atAwait("totals", ls, extractItemsAndPrices(ls, d, st))
      [] at = "totals" -> atAwait("validate", ls, extractTotalsAndCharges(ls, d, st))
      [] at = "validate" ->
           [pc |-> "done", lines |-> ls, d |-> validateAndFixData(d), st |-> st]

\* a call that runs alone from pattern state st: every step in turn
RECURSIVE runFrom(_)
runFrom(s) ==
    IF s.pc = "done" THEN s ELSE runFrom(stepExtraction(s.pc, s.lines, s.d, s.st))

advancedReceiptExtraction(t, st) == runFrom(startExtraction(t, st))

-----------------------------------------------------------------------------
(* The texts of the specifications *)

RECURSIVE SeqsUpTo(_, _)
SeqsUpTo(S, n) ==
    IF n = 0 THEN {<<>>}
    ELSE LET shorter == SeqsUpTo(S, n - 1)
         IN shorter \cup {Append(q, x) : q \in {p \in shorter : Len(p) = n - 1}, x \in S}

\* the receipts of the service specification: totals, bus tickets, quantity
\* markers, a price inside and a price outside [1, 10000]
Vocab == {W("total"), W("bus"), Q(4), Q(0), N(320), N(20000)}
Texts == SeqsUpTo(Vocab, MaxTextLen)

\* the receipts of the item specification
ItemVocab == {W("chicken"), W("total"), Q(4), Q(0), N(320)}
ItemTexts == SeqsUpTo(ItemVocab, MaxTextLen)

\* the receipts of the specification of two concurrent requests
ConcVocab == {W("total"), N(320)}
ConcTexts == SeqsUpTo(ConcVocab, MaxConcLen)

Req == {"A", "B"}

-----------------------------------------------------------------------------
(* The service: one instance, calls of advancedReceiptExtraction *)

ImageIdle ==
    /\ ipc = "idle"
    /\ hasKey = FALSE
    /\ variants = <<>>
    /\ idx = 0
    /\ best = None
    /\ bestConfidence = 0
    /\ ocrMethod = NoMethod
    /\ attempt = None
    /\ maxScore = 0
    /\ sawText = FALSE
    /\ result = None

imageVars == <<ipc, hasKey, variants, idx, best, bestConfidence, ocrMethod,
               attempt, maxScore, sawText, result>>

Init == /\ re = FreshRe
        /\ pc = [r \in Req |-> "idle"]
        /\ text = [r \in Req |-> <<>>]
        /\ lines = [r \in Req |-> <<>>]
        /\ data = [r \in Req |-> None]
        /\ before = [r \in Req |-> None]
        /\ re0 = [r \in Req |-> FreshRe]
        /\ prev = None
        /\ ImageIdle
        /\ ClientIdle

\* request r calls advancedReceiptExtraction(t); the call runs to its first
\* await.  re0 and before are history: the pattern state the call started
\* from and the draft handed to validateAndFixData
Start(r, t) ==
    /\ pc[r] = "idle"
    /\ \E s0 \in {startExtraction(t, re)} :
          /\ re' = s0.st
          /\ pc' = [pc EXCEPT ![r] = s0.pc]
          /\ lines' = [lines EXCEPT ![r] = s0.lines]
          /\ data' = [data EXCEPT ![r] = s0.d]
    /\ text' = [text EXCEPT ![r] = t]
    /\ re0' = [re0 EXCEPT ![r] = re]
    /\ before' = [before EXCEPT ![r] = None]
    /\ UNCHANGED <<prev, imageVars, clientVars>>

\* the call of request r resumes after an await and runs to the next one
Step(r) ==
    /\ pc[r] \in {"transport", "items", "totals", "validate"}
    /\ \E s1 \in {stepExtraction(pc[r], lines[r], data[r], re)} :
          /\ re' = s1.st
          /\ pc' = [pc EXCEPT ![r] = s1.pc]
          /\ data' = [data EXCEPT ![r] = s1.d]
    /\ before' = [before EXCEPT ![r] = IF pc[r] = "validate" THEN data[r] ELSE @]
    /\ UNCHANGED <<text, lines, re0, prev, imageVars, clientVars>>

\* the caller has taken the Receipt
Return(r) ==
    /\ pc[r] = "done"
    /\ pc' = [pc EXCEPT ![r] = "idle"]
    /\ text' = [text EXCEPT ![r] = <<>>]
    /\ lines' = [lines EXCEPT ![r] = <<>>]
    /\ data' = [data EXCEPT ![r] = None]
    /\ before' = [before EXCEPT ![r] = None]
    /\ re0' = [re0 EXCEPT ![r] = FreshRe]
    /\ prev' = None
    /\ UNCHANGED <<re, imageVars, clientVars>>

\* the caller keeps the Receipt and calls again with the identical text
CallAgain(r) ==
    /\ pc[r] = "done"
    /\ prev' = data[r]
    /\ \E s0 \in {startExtraction(text[r], re)} :
          /\ re' = s0.st
          /\ pc' = [pc EXCEPT ![r] = s0.pc]
          /\ lines' = [lines EXCEPT ![r] = s0.lines]
          /\ data' = [data EXCEPT ![r] = s0.d]
    /\ re0' = [re0 EXCEPT ![r] = re]
    /\ before' = [before EXCEPT ![r] = None]
    /\ UNCHANGED <<text, imageVars, clientVars>>

Next == \/ \E t \in Texts : Start("A", t)
        \/ Step("A")
        \/ Return("A")
        \/ CallAgain("A")

Spec == Init /\ [][Next]_vars

\* the same service with the receipts of the item specification
NextItems == \/ \E t \in ItemTexts : Start("A", t)
             \/ Step("A")
             \/ Return("A")

SpecItems == Init /\ [][NextItems]_vars

\* two requests on the one instance; they interleave at their awaits
NextConc == \E r \in Req : \/ \E t \in ConcTexts : Start(r, t)
                           \/ Step(r)
                           \/ Return(r)

SpecConc == Init /\ [][NextConc]_vars

-----------------------------------------------------------------------------
(* validateAndFixData on every draft the extractors can hand to it *)

MaxItems == 2

\* nothing, 0.50, 320.00 and 400.00
Amounts == {0, 50, 32000, 40000}

\* a price below 1, one of 1 to 10000, one above 10000
DraftPrices == {50, 32000, 2000000}

DraftItems ==
    {[name |-> <<W("chicken")>>, price |-> p, quantity |-> q, type |-> ""] :
        p \in DraftPrices, q \in {1, 2}}

Drafts ==
    {[getEmptyReceiptData EXCEPT !.items = its, !.subtotal = su, !.tax = ta,
                                 !.serviceCharge = sc, !.total = to,
                                 !.receiptType = "general"] :
        its \in SeqsUpTo(DraftItems, MaxItems),
        su \in Amounts, ta \in Amounts, sc \in Amounts, to \in Amounts}

\* items that sum to 1057.00, tax 52.85 and total 1109.85, no subtotal
ScenarioDraft ==
    [getEmptyReceiptData EXCEPT
        !.items = <<[name |-> <<W("chicken")>>, price |-> 50000, quantity |-> 1,
                     type |-> ""],
                    [name |-> <<W("chicken")>>, price |-> 55700, quantity |-> 1,
                     type |-> ""]>>,
        !.tax = 5285, !.total = 110985, !.receiptType = "general"]

InitValidate ==
    /\ re = FreshRe
    /\ pc = [r \in Req |-> IF r = "A" THEN "validate" ELSE "idle"]
    /\ text = [r \in Req |-> <<>>]
    /\ lines = [r \in Req |-> <<>>]
    /\ \E d \in Drafts \cup {ScenarioDraft} :
          data = [r \in Req |-> IF r = "A" THEN d ELSE None]
    /\ before = [r \in Req |-> None]
    /\ re0 = [r \in Req |-> FreshRe]
    /\ prev = None
    /\ ImageIdle
    /\ ClientIdle

NextValidate == Step("A")

SpecValidate == InitValidate /\ [][NextValidate]_vars

-----------------------------------------------------------------------------
(* processImage: the choice of one transcription *)

\* what an engine does with one image: it throws or it answers with a text;
\* Tesseract also reports its own confidence, 0 to 100
Throws == [kind |-> "throw", text |-> <<>>, confidence |-> 0]
Answer(t, c) == [kind |-> "text", text |-> t, confidence |-> c]

OcrVocab == {W("total"), D(3, 20)}
OcrTexts == SeqsUpTo(OcrVocab, MaxOcrLen)
TessConfidences == {0, 90}

OcrSpaceOutcomes == {Throws} \cup {Answer(t, 0) : t \in OcrTexts}
TesseractOutcomes == {Throws} \cup {Answer(t, c) : t \in OcrTexts, c \in TessConfidences}

\* the keys of the object advancedPreprocessing returns, in insertion order
AdvancedVariants ==
    <<"highContrast", "receiptOptimized", "denoised", "transportOptimized", "minimal">>
BasicVariants == <<"basic">>

\* { text, confidence } with the confidence c in 1/10000
engineResult(t, unit, c) ==
    [kind |-> "ok", text |-> t, confidence |-> c.conf * unit, st |-> c.st]

\* the result of an engine call; confidence in 1/10000.  OCR.space scores
\* its text from the base 0.7
processWithOCRSpace(o, st) ==
    IF o.kind = "throw" THEN [kind |-> "throw", text |-> <<>>, confidence |-> 0, st |-> st]
    ELSE engineResult(o.text, 100, calculateConfidence(o.text, 70, st))

\* Tesseract whose clamped score is returned as it is
processWithTesseract_Undivided(o, st) ==
    IF o.kind = "throw" THEN [kind |-> "throw", text |-> <<>>, confidence |-> 0, st |-> st]
    ELSE engineResult(o.text, 100, calculateConfidence(o.text, o.confidence * 100, st))

\* Tesseract scores its text from the base data.confidence and divides the
\* clamped score by 100
processWithTesseract(o, st) ==
    IF o.kind = "throw" THEN [kind |-> "throw", text |-> <<>>, confidence |-> 0, st |-> st]
    ELSE engineResult(o.text, 1, calculateConfidence(o.text, o.confidence * 100, st))

\* the selection that takes every result, whatever its score
keepBest_Latest(sel, r, method) ==
    IF r.kind = "ok"
    THEN [bestResult |-> [text |-> r.text, confidence |-> r.confidence],
          bestConfidence |-> r.confidence, ocrMethod |-> method]
    ELSE sel

\* if (result.confidence > bestConfidence) { bestResult = result; ... };
\* a call that threw leaves the selection alone
keepBest(sel, r, method) ==
    IF r.kind = "ok" /\ r.confidence > sel.bestConfidence
    THEN [bestResult |-> [text |-> r.text, confidence |-> r.confidence],
          bestConfidence |-> r.confidence, ocrMethod |-> method]
    ELSE sel

\* an error that leaves processImage
catchError_Rethrow(e) == [kind |-> "thrown", error |-> e]

\* catch (error) { return { success: false, error: error.message } }
catchError(e) == [kind |-> "failure", error |-> e]

\* the fallback that is taken only when there is no result at all
needsTesseract_NoResult(b, c) == b = None

\* if (!bestResult || bestConfidence < 0.7)
needsTesseract(b, c) == b = None \/ c < 7000

InitImage ==
    /\ re = FreshRe
    /\ pc = [r \in Req |-> "idle"]
    /\ text = [r \in Req |-> <<>>]
    /\ lines = [r \in Req |-> <<>>]
    /\ data = [r \in Req |-> None]
    /\ before = [r \in Req |-> None]
    /\ re0 = [r \in Req |-> FreshRe]
    /\ prev = None
    /\ ipc = "idle"
    /\ hasKey \in BOOLEAN
    /\ variants = <<>>
    /\ idx = 0
    /\ best = None
    /\ bestConfidence = 0
    /\ ocrMethod = NoMethod
    /\ attempt = None
    /\ maxScore = 0
    /\ sawText = FALSE
    /\ result = None
    /\ ClientIdle

serviceVars == <<pc, text, lines, data, before, re0, prev>>

\* processImage up to the first engine call: advancedPreprocessing gives its
\* five variants, or falls back to the basic one, or throws
Preprocess(p) ==
    /\ ipc = "idle"
    /\ IF p = "throw"
       THEN /\ ipc' = "done"
            /\ result' = catchError("preprocessing")
            /\ UNCHANGED <<variants, idx>>
       ELSE /\ ipc' = IF hasKey THEN "ocrspace" ELSE "tesseract"
            /\ variants' = IF p = "advanced" THEN AdvancedVariants ELSE BasicVariants
            /\ idx' = 1
            /\ result' = None
    /\ best' = None
    /\ bestConfidence' = 0
    /\ ocrMethod' = NoMethod
    /\ attempt' = None
    /\ maxScore' = 0
    /\ sawText' = FALSE
    /\ UNCHANGED <<re, hasKey, serviceVars, clientVars>>

\* one engine call of a loop and the update of the selection; attempt,
\* maxScore and sawText are history
Attempt(engine, r, after) ==
    /\ \E sel \in {keepBest([bestResult |-> best, bestConfidence |-> bestConfidence,
                             ocrMethod |-> ocrMethod],
                            r, [engine |-> engine, config |-> variants[idx]])} :
          /\ best' = sel.bestResult
          /\ bestConfidence' = sel.bestConfidence
          /\ ocrMethod' = sel.ocrMethod
          /\ IF idx < Len(variants)
             THEN idx' = idx + 1 /\ ipc' = ipc
             ELSE /\ idx' = 1
                  /\ ipc' = IF after = "tesseract"
                               /\ needsTesseract(sel.bestResult, sel.bestConfidence)
                            THEN "tesseract" ELSE "extract"
    /\ re' = r.st
    /\ attempt' = [engine |-> engine, config |-> variants[idx], kind |-> r.kind,
                   text |-> r.text, confidence |-> r.confidence]
    /\ maxScore' = IF r.kind = "ok" THEN Max(maxScore, r.confidence) ELSE maxScore
    /\ sawText' = (sawText \/ (r.kind = "ok" /\ ~IsBlank(r.text)))
    /\ UNCHANGED <<hasKey, variants, result, serviceVars, clientVars>>

OcrSpaceAttempt(o) ==
    /\ ipc = "ocrspace"
    /\ \E r \in {processWithOCRSpace(o, re)} : Attempt("OCR.space API", r, "tesseract")

TesseractAttempt(o) ==
    /\ ipc = "tesseract"
    /\ \E r \in {processWithTesseract(o, re)} : Attempt("Tesseract.js", r, "extract")

\* after the loops: no selection throws 'All OCR methods failed'; a
\* selection is extracted and returned with its text, score and method
Finish ==
    /\ ipc = "extract"
    /\ ipc' = "done"
    /\ IF best = None
       THEN /\ result' = catchError("All OCR methods failed")
            /\ re' = re
       ELSE \E x \in {advancedReceiptExtraction(best.text, re)} :
               /\ result' = [kind |-> "success", data |-> x.d, ocrMethod |-> ocrMethod,
                             rawText |-> best.text, confidence |-> bestConfidence]
               /\ re' = x.st
    /\ UNCHANGED <<hasKey, variants, idx, best, bestConfidence, ocrMethod,
                   attempt, maxScore, sawText, serviceVars, clientVars>>

\* the caller has the answer; the instance takes the next image
Reply ==
    /\ ipc = "done"
    /\ ipc' = "idle"
    /\ variants' = <<>>
    /\ idx' = 0
    /\ best' = None
    /\ bestConfidence' = 0
    /\ ocrMethod' = NoMethod
    /\ attempt' = None
    /\ maxScore' = 0
    /\ sawText' = FALSE
    /\ result' = None
    /\ UNCHANGED <<re, hasKey, serviceVars, clientVars>>

NextImage == \/ \E p \in {"advanced", "basic", "throw"} : Preprocess(p)
             \/ \E o \in OcrSpaceOutcomes : OcrSpaceAttempt(o)
             \/ \E o \in TesseractOutcomes : TesseractAttempt(o)
             \/ Finish
             \/ Reply

SpecImage == InitImage /\ [][NextImage]_vars

-----------------------------------------------------------------------------
(* Properties of advancedReceiptExtraction *)

Done(r) == pc[r] = "done"

BillTotal(total) ==
    [name |-> <<W("Bill"), W("Total")>>, price |-> total, quantity |-> 1, type |-> ""]

InPriceRange(it) == it.price >= 100 /\ it.price <= 1000000

\* C1: a second call of advancedReceiptExtraction with the identical text on
\* the same instance returns the Receipt the first call returned
C1_Idempotence ==
    (Done("A") /\ prev # None) => data["A"] = prev

\* C2: a request that interleaves with another one returns the Receipt it
\* returns when it runs alone from the state it started in
C2_Isolation ==
    \A r \in Req :
        Done(r) => data[r] = advancedReceiptExtraction(text[r], re0[r]).d

\* C3: every item of a returned Receipt, the generic Bill Total item and the
\* ticket of a transportation receipt included, has a price of 1 to 10000
C3_PriceRange ==
    Done("A") => \A i \in DOMAIN data["A"].items : InPriceRange(data["A"].items[i])

\* C4: in a returned Receipt total is 0 or total differs from
\* subtotal + tax + serviceCharge by at most a tenth of total
C4_Reconciliation ==
    Done("A") =>
        LET d == data["A"]
        IN \/ d.total = 0
           \/ 10 * Abs(d.total - (d.subtotal + d.tax + d.serviceCharge)) <= d.total

\* C5: total, subtotal, tax and serviceCharge of a returned Receipt are not
\* negative; the tax the validator recomputes is not negative
C5_NonNegative ==
    Done("A") =>
        LET d == data["A"]
        IN d.total >= 0 /\ d.subtotal >= 0 /\ d.tax >= 0 /\ d.serviceCharge >= 0

\* the validator has recomputed the tax of a draft
C5_Witness ==
    /\ Done("A")
    /\ before["A"] # None
    /\ data["A"].tax # before["A"].tax

\* C6: a returned Receipt with total > 0 has an item; when no extracted item
\* has a price of 1 to 10000 and total > 0, its items are exactly the one
\* generic item Bill Total with price = total and quantity 1
C6_NonEmpty ==
    (Done("A") /\ before["A"] # None /\ data["A"].total > 0) =>
        /\ data["A"].items # <<>>
        /\ (\A i \in DOMAIN before["A"].items : ~InPriceRange(before["A"].items[i]))
              => data["A"].items = <<BillTotal(data["A"].total)>>

\* every extracted item was out of range and the total was backfilled
C6_Witness ==
    /\ Done("A")
    /\ before["A"] # None
    /\ before["A"].items # <<>>
    /\ before["A"].total = 0
    /\ data["A"].items = <<BillTotal(data["A"].total)>>

\* C7: every item of a returned Receipt has an integer quantity >= 1
C7_Quantity ==
    Done("A") =>
        \A i \in DOMAIN data["A"].items :
            data["A"].items[i].quantity \in Nat \ {0}

\* an item extracted from a line with the quantity marker 0x
C7_Witness ==
    /\ Done("A")
    /\ \E j \in DOMAIN text["A"] : text["A"][j] = Q(0)
    /\ extractQuantity(text["A"]) = 0
    /\ \E i \in DOMAIN data["A"].items :
          data["A"].items[i].name # <<W("Bill"), W("Total")>>

-----------------------------------------------------------------------------
(* Properties of processImage *)

\* C8: processImage fails exactly when no engine call of the request
\* returned a text that is not empty
C8_FailsIffNoText ==
    ipc = "done" => ((result.kind = "failure") <=> ~sawText)

\* C9: the text, the confidence and the method of a successful answer are
\* those of one engine call, and no call of the request that returned had a
\* higher score
C9_OneBestAttempt ==
    /\ [](best # None => bestConfidence = maxScore)
    /\ [](ipc = "done" /\ result.kind = "success" =>
             /\ result.rawText = best.text
             /\ result.confidence = bestConfidence
             /\ result.ocrMethod = ocrMethod)
    /\ [][(/\ ipc \in {"ocrspace", "tesseract"}
           /\ <<best, bestConfidence, ocrMethod>>' # <<best, bestConfidence, ocrMethod>>)
          => /\ attempt'.kind = "ok"
             /\ best' = [text |-> attempt'.text, confidence |-> attempt'.confidence]
             /\ bestConfidence' = attempt'.confidence
             /\ ocrMethod' = [engine |-> attempt'.engine, config |-> attempt'.config]]_vars

\* a successful answer whose last engine call returned a text with a lower
\* score than the selected one
C9_Witness ==
    /\ ipc = "done"
    /\ result.kind = "success"
    /\ attempt.kind = "ok"
    /\ attempt.confidence > 0
    /\ attempt.confidence < result.confidence

\* C10: processImage answers with a success or with a failure, it throws
\* nothing; with a selected transcription the answer is a success
C10_NeverThrows ==
    ipc = "done" =>
        /\ result.kind \in {"success", "failure"}
        /\ best # None => result.kind = "success"

\* C10 (failure case reached): the request ends in a failure answer after an
\* engine call threw
C10_WitnessFailure ==
    /\ ipc = "done"
    /\ result.kind = "failure"
    /\ attempt # None
    /\ attempt.kind = "throw"

\* C10 (success case reached): the request ends in a success answer whose
\* Receipt has no items
C10_Witness ==
    /\ ipc = "done"
    /\ result.kind = "success"
    /\ result.data.items = <<>>

-----------------------------------------------------------------------------
(* processImage: engine calls that never answer *)

\* the engine call of the current loop position is in flight and the engine
\* will never answer it
Waiting == attempt # None /\ attempt.kind = "pending"

\* await this.processWithOCRSpace(...) / await this.processWithTesseract(...)
\* on a call the engine never answers
Hang ==
    /\ ipc \in {"ocrspace", "tesseract"}
    /\ ~Waiting
    /\ attempt' = [engine |-> IF ipc = "ocrspace" THEN "OCR.space API" ELSE "Tesseract.js",
                   config |-> variants[idx], kind |-> "pending",
                   text |-> <<>>, confidence |-> 0]
    /\ UNCHANGED <<re, ipc, hasKey, variants, idx, best, bestConfidence, ocrMethod,
                   maxScore, sawText, result, serviceVars, clientVars>>

\* axios.post(..., { timeout: 45000 }) rejects the unanswered request with
\* ECONNABORTED and processWithOCRSpace throws 'OCR.space API timeout'.
\* Tesseract.recognize is called with no timeout: nothing resumes its await
AxiosTimeout ==
    /\ Waiting
    /\ OcrSpaceAttempt(Throws)

NextBlocking ==
    \/ \E p \in {"advanced", "basic", "throw"} : Preprocess(p)
    \/ ~Waiting /\ \E o \in OcrSpaceOutcomes : OcrSpaceAttempt(o)
    \/ ~Waiting /\ \E o \in TesseractOutcomes : TesseractAttempt(o)
    \/ Hang
    \/ AxiosTimeout
    \/ Finish
    \/ Reply

SpecBlocking == InitImage /\ [][NextBlocking]_vars

\* C11: every engine call is under a timeout, so a request inside the engine
\* loops always has a next step, also when a call never completes: the call
\* answers, throws or is timed out, and the loops go on to the answer
C11_BoundedBlocking ==
    (ipc \in {"ocrspace", "tesseract"}) => ENABLED NextBlocking

-----------------------------------------------------------------------------
(* Receipts of several lines *)

\* a receipt of up to MaxTextLen tokens and line breaks
LineVocab == {W("chicken"), N(320), NL}
LineTexts == SeqsUpTo(LineVocab, MaxTextLen)

NextLines == \/ \E t \in LineTexts : Start("A", t)
             \/ Step("A")
             \/ Return("A")

SpecLines == Init /\ [][NextLines]_vars

\* C12: the extractors receive one line per non-blank line of the input
\* text, in input order; cleanText merges no two lines
C12_LineStructure ==
    pc["A"] # "idle" => lines["A"] = SplitLines(text["A"], <<>>)

-----------------------------------------------------------------------------
(* Receipts of every type *)

\* a keyword of each category of detectReceiptType, and a price
TypeVocab == {W("bus"), W("train"), W("chicken"), W("bill"), N(320)}
TypeTexts == SeqsUpTo(TypeVocab, MaxTextLen)

NextTypes == \/ \E t \in TypeTexts : Start("A", t)
             \/ Step("A")
             \/ Return("A")

SpecTypes == Init /\ [][NextTypes]_vars

\* the first category, in the fixed priority order, of which the text holds
\* a keyword
TypeByPriority(t) ==
    IF IncludesAny(t, RxWords("busTicket") \cup {"depot", "journey"})
    THEN "transportation"
    ELSE IF IncludesAny(t, RxWords("trainTicket")) THEN "train"
    ELSE IF IncludesAny(t, indianFoodTerms \cup {"restaurant", "hotel", "cafe"})
         THEN "restaurant"
    ELSE IF IncludesAny(t, {"invoice", "bill", "purchase"}) THEN "retail"
    ELSE "general"

\* C13: for every text detectReceiptType returns the first category of the
\* priority order transportation, train, restaurant, retail, general whose
\* keywords occur in the text
C13_TypePriority ==
    (pc["A"] # "idle" /\ ~IsBlank(text["A"]))
        => data["A"].receiptType = TypeByPriority(text["A"])

-----------------------------------------------------------------------------
(* extractTotalsAndCharges on sequences of lines *)

MaxLines == 2

\* a keyword of each field, or an item word, and an amount: 100 or 120
KeywordLines ==
    {<<W(w), N(p)>> : w \in {"total", "subtotal", "gst", "tip", "chicken"},
                      p \in {100, 120}}

\* Subtotal 1120.00 / GST 89.60 / Tip 56.00 / TOTAL 1265.60: a line of each
\* of the four patterns ('tip' is a keyword of the service-charge pattern)
ScenarioLines ==
    << <<W("subtotal"), D(1120, 0)>>, <<W("gst"), D(89, 60)>>,
       <<W("tip"), D(56, 0)>>, <<W("total"), D(1265, 60)>> >>

TotalsInputs == SeqsUpTo(KeywordLines, MaxLines) \cup {ScenarioLines}

\* the call is at its await of extractTotalsAndCharges, with the lines ls and
\* a draft in which no amount is set yet
InitTotals ==
    /\ re = FreshRe
    /\ pc = [r \in Req |-> IF r = "A" THEN "totals" ELSE "idle"]
    /\ text = [r \in Req |-> <<>>]
    /\ \E ls \in TotalsInputs : lines = [r \in Req |-> IF r = "A" THEN ls ELSE <<>>]
    /\ data = [r \in Req |-> IF r = "A"
                             THEN [getEmptyReceiptData EXCEPT !.receiptType = "general"]
                             ELSE None]
    /\ before = [r \in Req |-> None]
    /\ re0 = [r \in Req |-> FreshRe]
    /\ prev = None
    /\ ImageIdle
    /\ ClientIdle

NextTotals == Step("A")

SpecTotals == InitTotals /\ [][NextTotals]_vars

\* extractTotalsAndCharges has returned and validateAndFixData has not run
AfterTotals == pc["A"] = "validate"

\* the largest price of every line that holds a keyword of the pattern rx and
\* a price
KeywordAmounts(ls, rx) ==
    {SeqMax(extractPricesFromLine(ls[j])) :
        j \in {n \in 1..Len(ls) : /\ \E h \in 1..Len(ls[n]) : RxHit(rx, ls[n][h])
                                  /\ extractPricesFromLine(ls[n]) # <<>>}}

\* the largest element of a set of amounts, 0 for the empty set
Largest(S) == IF S = {} THEN 0 ELSE CHOOSE a \in S : \A b \in S : b <= a

\* C14: after extractTotalsAndCharges total is the maximum, over the lines
\* that match the total pattern and hold a price, of the line's largest
\* price, and 0 without such a line; a repeated TOTAL line with a larger
\* price replaces the smaller one
C14_TotalIsMaximum ==
    AfterTotals => data["A"].total = Largest(KeywordAmounts(lines["A"], "total"))

\* C15: the four fields are tracked independently: a line that matches the
\* subtotal pattern and holds a price raises subtotal to at least the line's
\* largest price and leaves total alone, a tax line feeds tax and a
\* service-charge line feeds serviceCharge; the lines Subtotal 1120.00,
\* GST 89.60, Service Charge 56.00, TOTAL 1265.60 give subtotal 1120,
\* tax 89.60, serviceCharge 56 and total 1265.60
C15_IndependentFields ==
    AfterTotals =>
        /\ \A a \in KeywordAmounts(lines["A"], "subtotal") : data["A"].subtotal >= a
        /\ \A a \in KeywordAmounts(lines["A"], "gst") : data["A"].tax >= a
        /\ \A a \in KeywordAmounts(lines["A"], "serviceCharge") :
              data["A"].serviceCharge >= a
        /\ lines["A"] = ScenarioLines =>
              /\ data["A"].subtotal = 112000
              /\ data["A"].tax = 8960
              /\ data["A"].serviceCharge = 5600
              /\ data["A"].total = 126560

-----------------------------------------------------------------------------
(* Properties of validateAndFixData *)

\* subtotal + tax + serviceCharge of the draft d once its subtotal is sub
DraftSum(d, sub) == sub + d.tax + d.serviceCharge

\* C16: a draft with subtotal 0 and at least one item gets the sum of
\* price x quantity of its items as subtotal; and when the extracted total
\* then equals subtotal + tax + serviceCharge within 10% of total, total and
\* tax stay as extracted
C16_SubtotalBackfill ==
    (Done("A") /\ before["A"] # None
        /\ before["A"].subtotal = 0 /\ before["A"].items # <<>>)
    => LET d == before["A"]
           sub == ItemSum(d.items)
       IN /\ data["A"].subtotal = sub
          /\ 10 * Abs(d.total - DraftSum(d, sub)) <= d.total
                => data["A"].total = d.total /\ data["A"].tax = d.tax

\* C16 (case reached): the validator has run on items that sum to 1057.00
\* with tax 52.85 and total 1109.85, and has returned subtotal 1057.00 with
\* the total and the tax as they were
C16_Witness ==
    /\ Done("A")
    /\ before["A"] = ScenarioDraft
    /\ data["A"].subtotal = 105700
    /\ data["A"].total = 110985
    /\ data["A"].tax = 5285

\* subtotal and total of the draft d after the two backfills
Backfilled(d) ==
    LET sub == IF d.subtotal = 0 /\ d.items # <<>> THEN ItemSum(d.items) ELSE d.subtotal
    IN [subtotal |-> sub,
        total |-> IF d.total = 0 THEN DraftSum(d, sub) ELSE d.total]

\* |total - (subtotal + tax + serviceCharge)| > 0.1 * total and
\* total > subtotal, after the backfills
Mismatch(d) ==
    /\ 10 * Abs(Backfilled(d).total - DraftSum(d, Backfilled(d).subtotal))
          > Backfilled(d).total
    /\ Backfilled(d).total > Backfilled(d).subtotal

\* total - subtotal - serviceCharge after the backfills
Residual(d) == Backfilled(d).total - Backfilled(d).subtotal - d.serviceCharge

-----------------------------------------------------------------------------
(* Items at the upper price limit *)

\* an item word and the amounts 10000.00 and 10000.01
BoundaryVocab == {W("chicken"), D(10000, 0), D(10000, 1)}
BoundaryTexts == SeqsUpTo(BoundaryVocab, MaxTextLen)

NextBoundary == \/ \E t \in BoundaryTexts : Start("A", t)
                \/ Step("A")
                \/ Return("A")

SpecBoundary == Init /\ [][NextBoundary]_vars

\* C18: an item line whose price is exactly 10000.00 gives an item that is
\* kept with price 10000, and an item line whose price is 10000.01 gives no
\* item in the returned Receipt
C18_UpperBoundary ==
    Done("A") =>
        /\ text["A"] = <<W("chicken"), D(10000, 0)>>
              => \E i \in DOMAIN data["A"].items : data["A"].items[i].price = 1000000
        /\ text["A"] = <<W("chicken"), D(10000, 1)>> => data["A"].items = <<>>

-----------------------------------------------------------------------------
(* Empty text *)

\* C19: for an empty or white-space-only text advancedReceiptExtraction
\* returns a Receipt with subtotal, tax, serviceCharge and total 0 and no
\* item: no 'Bill Total' item is made up, because total is 0
C19_EmptyText ==
    (Done("A") /\ IsBlank(text["A"]))
    => /\ data["A"].subtotal = 0 /\ data["A"].tax = 0
       /\ data["A"].serviceCharge = 0 /\ data["A"].total = 0
       /\ data["A"].items = <<>>

\* C19 (case reached): a call with a text of line breaks only has returned
\* the empty Receipt
C19_Witness ==
    /\ Done("A")
    /\ text["A"] # <<>> /\ IsBlank(text["A"])
    /\ data["A"] = getEmptyReceiptData

-----------------------------------------------------------------------------
(* Bus tickets: the fare selection of extractTransportationData *)

MaxFareTokens == 2

\* amounts that are fare candidates (10 to 2000), one of them with decimals,
\* and one that is too small
FareAmounts == {N(45), N(320), D(45, 50), N(5)}

\* a bus ticket: 'bus', then nothing or a word that lowers or raises the
\* context score of the line, then up to MaxFareTokens amounts
FareTexts ==
    {<<W("bus")>> \o w \o ns :
        w \in {<<>>, <<W("date")>>, <<W("total")>>},
        ns \in SeqsUpTo(FareAmounts, MaxFareTokens)}

NextFares == \/ \E t \in FareTexts : Start("A", t)
             \/ Step("A")
             \/ Return("A")

SpecFares == Init /\ [][NextFares]_vars

\* possibleFares after the loop over the lines, sorted descending
PossibleFares(ls) ==
    SortDescending(transportLoop(ls, [info |-> NoInfo, from |-> <<>>, to |-> <<>>,
                                      distance |-> 0, fares |-> <<>>,
                                      st |-> FreshRe]).fares)

\* the documented order: the explicit winner if there is one; else the only
\* candidate, the larger of two, the top of scoreFaresByContext of three or
\* more
FareInOrder(explicit, fares) ==
    CASE explicit # 0 -> explicit
      [] explicit = 0 /\ Len(fares) = 1 -> fares[1]
      [] explicit = 0 /\ Len(fares) = 2 -> Max(fares[1], fares[2])
      [] OTHER -> scoreFaresByContext(fares)[1].fare

TicketWithFares(r) ==
    /\ Done(r)
    /\ data[r].receiptType = "transportation"
    /\ PossibleFares(lines[r]) # <<>>

\* C20: in the transportation path the candidate findExplicitFare chooses
\* (highest context score, if that score is above 0) is the fare; without
\* one the only candidate is the fare, of two candidates the larger, of three
\* or more the top candidate of scoreFaresByContext; the fare becomes total
C20_FareOrder ==
    TicketWithFares("A")
    => data["A"].total =
          FareInOrder(findExplicitFare(lines["A"], PossibleFares(lines["A"])),
                      PossibleFares(lines["A"]))

\* C20 (case reached): a ticket with two different candidates and no explicit
\* winner has the larger one as total
C20_Witness ==
    /\ TicketWithFares("A")
    /\ Len(PossibleFares(lines["A"])) = 2
    /\ PossibleFares(lines["A"])[1] > PossibleFares(lines["A"])[2]
    /\ findExplicitFare(lines["A"], PossibleFares(lines["A"])) = 0
    /\ data["A"].total = PossibleFares(lines["A"])[1]

-----------------------------------------------------------------------------
(* Lines the item extractor has to skip *)

\* the line holds a match of the pattern rx, whatever the state of the pattern
Matches(rx, line) == \E j \in 1..Len(line) : RxHit(rx, line[j])

\* a total-like line, a header line or a merchant-info line
SkipClass(line) ==
    \/ \E rx \in {"total", "subtotal", "gst", "serviceCharge"} : Matches(rx, line)
    \/ isHeaderLine(line)
    \/ Matches("phone", line) \/ Matches("email", line)
    \/ IncludesAny(line, {"address", "location"})

\* the item is the one the item extractor makes of the line
ProducedFrom(it, line) ==
    /\ extractPricesFromLine(line) # <<>>
    /\ it.name = extractItemName(line, extractPricesFromLine(line))
    /\ it.price = selectBestPrice(extractPricesFromLine(line), line)

\* extractItemsAndPrices has returned on the general path
AfterItems(r) == pc[r] = "totals"

\* C21: no item of the general path is produced from a line that matches a
\* total, subtotal, tax or service-charge keyword pattern, a header pattern
\* or a merchant-info pattern, whatever lines were examined before it
C21_SkippedLines ==
    AfterItems("A") =>
        \A n \in DOMAIN lines["A"] :
            SkipClass(lines["A"][n]) =>
                \A i \in DOMAIN data["A"].items :
                    ~ProducedFrom(data["A"].items[i], lines["A"][n])

-----------------------------------------------------------------------------
(* Bus tickets: the name of the operator *)

\* an operator abbreviation, a depot, a plain bus ticket and a fare
OrgVocab == {W("gsrtc"), W("depot"), W("bus"), N(45)}
OrgTexts == SeqsUpTo(OrgVocab, MaxTextLen)

NextOrg == \/ \E t \in OrgTexts : Start("A", t)
           \/ Step("A")
           \/ Return("A")

SpecOrg == Init /\ [][NextOrg]_vars

\* the line holds one of the five operator abbreviations
HasAbbreviation(line) ==
    \E n \in DOMAIN operatorNames : Includes(line, operatorNames[n][1])

\* the full name of the first abbreviation of the list that the line holds
CanonicalName(line) ==
    <<W(operatorNames[MinOf({n \in DOMAIN operatorNames :
                                Includes(line, operatorNames[n][1])})][2])>>

\* a ticket of one line has been extracted
TicketOfOneLine(r) ==
    /\ pc[r] \in {"validate", "done"}
    /\ data[r].receiptType = "transportation"
    /\ Len(lines[r]) = 1

\* C22: on the transportation path the name of a line with an operator
\* abbreviation is the full name of the operator; the name '<NAME> DEPOT' is
\* used only when no abbreviation matches, and the raw line only when neither
\* an abbreviation nor the depot pattern matches
C22_OperatorName ==
    TicketOfOneLine("A") =>
        LET line == lines["A"][1]
            name == data["A"].merchantInfo.name
        IN /\ HasAbbreviation(line) => name = CanonicalName(line)
           /\ (depotMatch(line) # <<>> /\ name = depotMatch(line))
                 => ~HasAbbreviation(line)
           /\ name = line => (~HasAbbreviation(line) /\ depotMatch(line) = <<>>)

-----------------------------------------------------------------------------
(* extractTransportationData on sequences of lines *)

\* the distances of the tickets: 12 km and 30 km
TicketDistances == {12, 30}

\* a route, a fare, a distance, and a route with its distance
TicketLines ==
    {<<W("pune"), W("agra")>>, <<W("bus"), N(45)>>}
    \cup {<<N(km), W("km")>> : km \in TicketDistances}
    \cup {<<W("pune"), W("agra"), N(km), W("km")>> : km \in TicketDistances}

TicketInputs == SeqsUpTo(TicketLines, MaxLines)

\* the call is at its await of extractTransportationData, with the lines ls
\* and the draft of a transportation receipt
InitTickets ==
    /\ re = FreshRe
    /\ pc = [r \in Req |-> IF r = "A" THEN "transport" ELSE "idle"]
    /\ text = [r \in Req |-> <<>>]
    /\ \E ls \in TicketInputs : lines = [r \in Req |-> IF r = "A" THEN ls ELSE <<>>]
    /\ data = [r \in Req |-> IF r = "A"
                             THEN [getEmptyReceiptData EXCEPT
                                      !.receiptType = "transportation"]
                             ELSE None]
    /\ before = [r \in Req |-> None]
    /\ re0 = [r \in Req |-> FreshRe]
    /\ prev = None
    /\ ImageIdle
    /\ ClientIdle

NextTickets == Step("A")

SpecTickets == InitTickets /\ [][NextTickets]_vars

\* the number of the first '<number> km' match in line order, 0 without one
RECURSIVE FirstKm(_)
FirstKm(ls) ==
    IF ls = <<>> THEN 0
    ELSE IF kmMatch(Head(ls)) # 0 THEN kmMatch(Head(ls))
    ELSE FirstKm(Tail(ls))

\* a ticket with a route has been extracted from lines with a distance
TicketWithRoute(r) ==
    /\ pc[r] \in {"validate", "done"}
    /\ lines[r] # <<>>
    /\ data[r].receiptType = "transportation"
    /\ data[r].items # <<>>
    /\ Len(data[r].items[1].name) > 3
    /\ FirstKm(lines[r]) # 0

\* C23: the distance in the item name of a ticket is the number of the first
\* '<number> km' match in line order; a later line with such a match does not
\* replace it
C23_FirstDistance ==
    TicketWithRoute("A") =>
        data["A"].items[1].name =
            <<W("PUNE"), W("to"), W("AGRA"), W("("), N(FirstKm(lines["A"])), W("km)")>>

-----------------------------------------------------------------------------
(* The amounts of a ticket *)

\* C24: a Receipt of the transportation path is returned with subtotal equal
\* to total and with tax and serviceCharge 0, also after validateAndFixData
C24_TicketAmounts ==
    (pc["A"] \in {"validate", "done"} /\ data["A"].receiptType = "transportation")
    => /\ data["A"].subtotal = data["A"].total
       /\ data["A"].tax = 0
       /\ data["A"].serviceCharge = 0

\* C24 (case reached): validateAndFixData has run on a ticket with a fare
\* that is not the largest amount of the ticket
C24_Witness ==
    /\ Done("A") /\ before["A"] # None
    /\ data["A"].receiptType = "transportation"
    /\ data["A"].total > 0
    /\ data["A"].total < SeqMax(PossibleFares(lines["A"]))
    /\ data["A"].subtotal = data["A"].total

-----------------------------------------------------------------------------
(* extractItemsAndPrices on sequences of lines *)

\* an item with and without a quantity marker, at two prices, and a total
ItemLines ==
    {<<Q(q), W("chicken"), N(325)>> : q \in {2, 3}}
    \cup {<<W("chicken"), N(p)>> : p \in {120, 325}}
    \cup {<<W("total"), N(325)>>}

ItemInputs == SeqsUpTo(ItemLines, MaxLines)

\* the call is at its await of extractItemsAndPrices, with the lines ls and
\* the draft of a general receipt
InitItemLines ==
    /\ re = FreshRe
    /\ pc = [r \in Req |-> IF r = "A" THEN "items" ELSE "idle"]
    /\ text = [r \in Req |-> <<>>]
    /\ \E ls \in ItemInputs : lines = [r \in Req |-> IF r = "A" THEN ls ELSE <<>>]
    /\ data = [r \in Req |-> IF r = "A"
                             THEN [getEmptyReceiptData EXCEPT !.receiptType = "general"]
                             ELSE None]
    /\ before = [r \in Req |-> None]
    /\ re0 = [r \in Req |-> FreshRe]
    /\ prev = None
    /\ ImageIdle
    /\ ClientIdle

NextItemLines == Step("A")

SpecItemLines == InitItemLines /\ [][NextItemLines]_vars

\* the first line, in line order, of which the item extractor makes an item
\* with the name and the price of it
FirstLineOf(it, ls) ==
    MinOf({n \in DOMAIN ls : ProducedFrom(it, ls[n])})

\* no two items have the same name and price
NoDuplicates(items) ==
    \A i, j \in DOMAIN items :
        (items[i].name = items[j].name /\ items[i].price = items[j].price) => i = j

\* C25: after the general item extraction no two items share the same
\* (lower-cased name, price) pair, and of each group of duplicates the item
\* of the first line in line order is the one that is kept
C25_FirstKept ==
    AfterItems("A") =>
        /\ NoDuplicates(data["A"].items)
        /\ \A i \in DOMAIN data["A"].items :
              data["A"].items[i].quantity =
                  quantityOrOne(extractQuantity(
                      lines["A"][FirstLineOf(data["A"].items[i], lines["A"])]))

-----------------------------------------------------------------------------
(* processImage: the order of the engines *)

\* transcriptions that score 0.75 and 0.6 from fresh patterns, and the empty one
EngineVocab == {W("bus"), W("total")}
EngineTexts == SeqsUpTo(EngineVocab, MaxOcrLen)

EngineOcrSpace == {Throws} \cup {Answer(t, 0) : t \in EngineTexts}
EngineTesseract ==
    {Throws} \cup {Answer(t, c) : t \in EngineTexts, c \in TessConfidences}

NextEngines == \/ \E p \in {"advanced", "basic", "throw"} : Preprocess(p)
               \/ \E o \in EngineOcrSpace : OcrSpaceAttempt(o)
               \/ \E o \in EngineTesseract : TesseractAttempt(o)
               \/ Finish
               \/ Reply

SpecEngines == InitImage /\ [][NextEngines]_vars

\* no result exists or the best score is below 0.7
NotGoodEnough(b, c) == b = None \/ c < 7000

\* the engine call that has just returned
Attempted(engine, config) ==
    /\ attempt' # None
    /\ attempt'.engine = engine
    /\ attempt'.config = config

\* C26: Tesseract is attempted, on every variant in turn, if and only if
\* after all OCR.space attempts no result exists or the best score is below
\* 0.7; after an OCR.space result of 0.7 or more no Tesseract call is made
C26_EngineOrder ==
    /\ [][(ipc # "tesseract" /\ ipc' = "tesseract")
             => NotGoodEnough(best', bestConfidence') /\ idx' = 1]_vars
    /\ [][(ipc \in {"idle", "ocrspace"} /\ ipc' = "extract")
             => ~NotGoodEnough(best', bestConfidence')]_vars
    /\ [][(ipc = "tesseract" /\ ipc' = "tesseract")
             => /\ Attempted("Tesseract.js", variants[idx])
                /\ idx < Len(variants) /\ idx' = idx + 1]_vars
    /\ [][(ipc = "tesseract" /\ ipc' # "tesseract")
             => /\ Attempted("Tesseract.js", variants[idx])
                /\ idx = Len(variants) /\ ipc' = "extract"]_vars
    /\ [][(ipc # "tesseract" /\ attempt' # attempt /\ attempt' # None)
             => attempt'.engine = "OCR.space API"]_vars

\* C26 (case reached): the answer is an OCR.space result of 0.7 or more and
\* the last engine call of the request was an OCR.space call
C26_Witness ==
    /\ ipc = "done"
    /\ result.kind = "success"
    /\ result.confidence >= 7000
    /\ attempt.engine = "OCR.space API"

\* C26 (fallback reached): the OCR.space calls ended with a best score below
\* 0.7 and Tesseract has been called on the last variant
C26_WitnessFallback ==
    /\ ipc = "extract"
    /\ hasKey /\ sawText
    /\ attempt.engine = "Tesseract.js"
    /\ attempt.config = variants[Len(variants)]

-----------------------------------------------------------------------------
(* The backfilled subtotal and the returned items *)

\* C28: when no subtotal was extracted and it is backfilled from the items,
\* the subtotal of the returned Receipt is the sum of price x quantity of the
\* items of the returned Receipt; an item that the price filter of the
\* validator removes does not count
C28_SubtotalOfReturnedItems ==
    (Done("A") /\ before["A"] # None
        /\ before["A"].subtotal = 0 /\ before["A"].items # <<>>)
    => data["A"].subtotal = ItemSum(data["A"].items)

-----------------------------------------------------------------------------
(* BillSplitService (supabaseService.js): calculateSplit and its methods.
   Amounts are JavaScript numbers; the model keeps them as exact fractions
   num / den of hundredths, so that a division loses nothing. *)

MaxPeople == 2

ocrVars == <<re, pc, text, lines, data, before, re0, prev, imageVars>>

Frac(n, d) == [num |-> n, den |-> d]

AddFrac(a, b) == Frac(a.num * b.den + b.num * a.den, a.den * b.den)

splitMethods ==
    [EQUAL |-> "equal", BY_ITEMS |-> "by_items", CUSTOM |-> "custom",
     PERCENTAGE |-> "percentage"]

\* participants.forEach(...) filling calculations[participant.id]: the ids are
\* the keys of the rows, here the positions 1..Len(participants)
calculateEqualSplit(receipt, people) ==
    [p \in 1..Len(people) |->
        [amount |-> Frac(receipt.total_amount, Len(people)), items |-> <<>>]]

\* items.find(i => i.id === itemId || i.name === itemId), then the costs of
\* the items that were found
RECURSIVE assignedCosts(_, _)
assignedCosts(items, assignedItems) ==
    IF assignedItems = <<>> THEN <<>>
    ELSE LET found == {i \in 1..Len(items) : items[i].id = Head(assignedItems)}
             rest == assignedCosts(items, Tail(assignedItems))
         IN IF found = {} THEN rest
            ELSE <<[price |-> items[MinOf(found)].price,
                    quantity |-> items[MinOf(found)].quantity]>> \o rest

calculateItemBasedSplit(receipt, people) ==
    LET itemsTotal == ItemSum(receipt.items)
        taxRatio == IF itemsTotal > 0 THEN Frac(receipt.total_amount, itemsTotal)
                    ELSE Frac(1, 1)
    IN [p \in 1..Len(people) |->
           LET mine == assignedCosts(receipt.items, people[p].items_assigned)
           IN [amount |-> Frac(ItemSum(mine) * taxRatio.num, taxRatio.den),
               items |-> mine]]

\* customAmounts[participant.id] || 0: an absent amount is 0
calculateCustomSplit(receipt, people, splitData) ==
    [p \in 1..Len(people) |->
        [amount |-> Frac(splitData.customAmounts[p], 1), items |-> <<>>]]

calculatePercentageSplit(receipt, people, splitData) ==
    [p \in 1..Len(people) |->
        [amount |-> Frac(receipt.total_amount * splitData.percentages[p], 100),
         items |-> <<>>]]

RECURSIVE calculatedTotal(_)
calculatedTotal(calculations) ==
    IF calculations = <<>> THEN Frac(0, 1)
    ELSE AddFrac(Head(calculations).amount, calculatedTotal(Tail(calculations)))

generateSplitSummary(receipt, calculations) ==
    LET sum == calculatedTotal(calculations)
    IN [totalAmount |-> receipt.total_amount,
        participantCount |-> Len(calculations),
        calculatedTotal |-> sum,
        difference |-> Frac(Abs(receipt.total_amount * sum.den - sum.num), sum.den)]

calculationsOf(split) ==
    LET receipt == split.receipts
        people == split.split_participants
        method == split.split_method
    IN CASE method = splitMethods.EQUAL -> calculateEqualSplit(receipt, people)
         [] method = splitMethods.BY_ITEMS -> calculateItemBasedSplit(receipt, people)
         [] method = splitMethods.CUSTOM ->
                calculateCustomSplit(receipt, people, split.split_data)
         [] method = splitMethods.PERCENTAGE ->
                calculatePercentageSplit(receipt, people, split.split_data)
         [] OTHER -> calculateEqualSplit(receipt, people)

\* calculations[participant.id]?.amount || 0 written to each row
updateParticipantAmounts(people, calculations) ==
    [p \in 1..Len(people) |->
        [people[p] EXCEPT !.amount_owed = calculations[p].amount]]

\* the whole of calculateSplit(splitId) on the stored row
calculateSplit ==
    /\ bill # None
    /\ bill.pc = "stored"
    /\ \E calculations \in {calculationsOf(bill.split)} :
         bill' = [pc |-> "calculated",
                  split |-> [bill.split EXCEPT !.split_participants =
                                updateParticipantAmounts(@, calculations)],
                  calculations |-> calculations,
                  summary |-> generateSplitSummary(bill.split.receipts, calculations)]
    /\ UNCHANGED <<participants, ocrVars>>

\* a receipt of two items worth 7.00, alone or with 10 % of charges
ReceiptRows ==
    {[total_amount |-> t,
      items |-> <<[id |-> 1, price |-> 300, quantity |-> 1],
                  [id |-> 2, price |-> 200, quantity |-> 2]>>] : t \in {700, 770}}

\* each participant is assigned no item, one item or both
ParticipantRows ==
    {[items_assigned |-> a, amount_owed |-> Frac(0, 1)] :
        a \in {<<>>, <<1>>, <<2>>, <<1, 2>>}}

SplitRows ==
    {[split_method |-> m, receipts |-> r, split_participants |-> ps,
      split_data |-> [customAmounts |-> ca, percentages |-> pe]] :
        m \in {"equal", "by_items", "custom", "percentage", "weighted"},
        r \in ReceiptRows,
        ps \in {q \in SeqsUpTo(ParticipantRows, MaxPeople) : q # <<>>},
        ca \in SeqsUpTo({0, 350}, MaxPeople),
        pe \in SeqsUpTo({30, 50}, MaxPeople)}

\* no call of the OCR service is under way
OcrIdle ==
    /\ re = FreshRe
    /\ pc = [r \in Req |-> "idle"]
    /\ text = [r \in Req |-> <<>>]
    /\ lines = [r \in Req |-> <<>>]
    /\ data = [r \in Req |-> None]
    /\ before = [r \in Req |-> None]
    /\ re0 = [r \in Req |-> FreshRe]
    /\ prev = None
    /\ ImageIdle

InitSplit ==
    /\ OcrIdle
    /\ participants = <<>>
    /\ \E s \in SplitRows :
         /\ Len(s.split_data.customAmounts) = Len(s.split_participants)
         /\ Len(s.split_data.percentages) = Len(s.split_participants)
         /\ bill = [pc |-> "stored", split |-> s]

NextSplit == calculateSplit

SpecSplit == InitSplit /\ [][NextSplit]_vars

Calculated == bill # None /\ bill.pc = "calculated"

\* C29: for every split computed by calculateSplit, whatever the method and
\* the assignments, the participants' amounts sum to the receipt's total
\* amount: the summary's difference is 0
C29_SumsToTotal ==
    Calculated => bill.summary.difference.num = 0

-----------------------------------------------------------------------------
(* The client (script.js): the people of a split and the items assigned to
   them.  A person's id is Date.now().toString(): the millisecond of the
   click, which two clicks can share *)

MaxNow == 2

\* what is typed in the person-name field
PersonNames == {"", " ", "Ann", "ann ", "ANN", "Bob"}

trim(input) ==
    CASE input = " " -> ""
      [] input = "ann " -> "ann"
      [] OTHER -> input

toLowerCase(name) ==
    CASE name = "Ann" -> "ann"
      [] name = "ANN" -> "ann"
      [] name = "Bob" -> "bob"
      [] OTHER -> name

\* the indexes of currentReceipt.items, one select element for each
ItemIndexes == 0..(MaxItems - 1)

\* Date.now() does not go back: no person on the list has a later id
Now == {t \in 1..MaxNow : \A p \in 1..Len(participants) : participants[p].id <= t}

addPerson(input, now) ==
    /\ LET name == trim(input)
       IN IF name = "" THEN UNCHANGED participants
          ELSE IF \E p \in 1..Len(participants) :
                     toLowerCase(participants[p].name) = toLowerCase(name)
               THEN UNCHANGED participants
               ELSE participants' =
                       Append(participants,
                              [id |-> now, name |-> name, assignedItems |-> <<>>])
    /\ UNCHANGED <<bill, ocrVars>>

removePerson(personId) ==
    /\ participants' = SelectSeq(participants, LAMBDA p : p.id # personId)
    /\ UNCHANGED <<bill, ocrVars>>

removeFromAll_Kept(people, itemIndex) == people

\* person.assignedItems.filter((i) => i.index !== itemIndex) on every person
removeFromAll(people, itemIndex) ==
    [p \in 1..Len(people) |->
        [people[p] EXCEPT !.assignedItems =
            SelectSeq(@, LAMBDA i : i.index # itemIndex)]]

\* participants.find((p) => p.id === personId) and the push; personId 0 is
\* the empty value of the select
pushTo(people, itemIndex, personId) ==
    LET found == {p \in 1..Len(people) : people[p].id = personId}
    IN IF personId = 0 \/ found = {} THEN people
       ELSE [people EXCEPT ![MinOf(found)].assignedItems =
                Append(@, [index |-> itemIndex])]

assignItem(itemIndex, personId) ==
    /\ participants' = pushTo(removeFromAll(participants, itemIndex), itemIndex, personId)
    /\ UNCHANGED <<bill, ocrVars>>

InitClient ==
    /\ OcrIdle
    /\ ClientIdle

NextClient ==
    \/ \E input \in PersonNames, now \in Now : addPerson(input, now)
    \/ \E p \in 1..Len(participants) : removePerson(participants[p].id)
    \/ \E itemIndex \in ItemIndexes, personId \in 0..MaxNow : assignItem(itemIndex, personId)

SpecClient == InitClient /\ [][NextClient]_vars

Holds(p, itemIndex) ==
    \E n \in 1..Len(participants[p].assignedItems) :
        participants[p].assignedItems[n].index = itemIndex

\* C30: after any sequence of addPerson, removePerson and assignItem every
\* receipt item index is in the assignedItems of at most one participant,
\* and the participants' names are pairwise distinct ignoring case
C30_OneOwnerDistinctNames ==
    \A p, q \in 1..Len(participants) :
        p # q =>
            /\ \A itemIndex \in ItemIndexes : ~(Holds(p, itemIndex) /\ Holds(q, itemIndex))
            /\ toLowerCase(participants[p].name) # toLowerCase(participants[q].name)

\* two people, each with an item assigned
C30_Witness ==
    /\ Len(participants) = 2
    /\ \E i, j \in ItemIndexes : Holds(1, i) /\ Holds(2, j)

====
